---- MODULE Spec2Model ----
(***************************************************************************)
(* A state-machine model of py-meltysynth (src/meltysynth.py): the MIDI    *)
(* channel state, the voice pool with its envelopes, the block render loop *)
(* of the Synthesizer and the MidiFileSequencer that drives it.            *)
(*                                                                         *)
(* Conventions of the model                                                *)
(*  - Times are counted in sample periods (seconds * sample_rate), so that *)
(*    processed_sample_count / sample_rate is the sample count itself.     *)
(*  - Gains and envelope values are fixed-point numbers in thousandths      *)
(*    (Unit = 1.0).  exp() is evaluated at arguments rounded down to a     *)
(*    multiple of 9.226/4 (see exp_cutoff).                                *)
(*  - The oscillator advances one sample of data per output sample         *)
(*    (pitch ratio 1).                                                     *)
(***************************************************************************)
EXTENDS Integers, Sequences, FiniteSets, TLC

----------------------------------------------------------------------------
(* Settings of the synthesizer under test and bounds of the exploration.   *)

\* SynthesizerSettings.block_size
BlockSize == 2
\* SynthesizerSettings.maximum_polyphony
MaxPolyphony == 2
\* SynthesizerSettings.sample_rate
SampleRate == 500
\* Render is not explored once a voice has run this many samples.
MaxVoiceLength == 8
\* Length of the caller's output buffers.
BufferLength == 5
\* Number of MIDI operations explored.
MaxOps == 4
\* The sequencer's render is not explored once current_time exceeds this.
MaxTime == 8
\* Number of events in a track of the MIDI files explored.
MaxTrackEvents == 3
\* The loop of _read_track is explored this many iterations past the file size.
MaxOverrun == 2

\* Synthesizer._CHANNEL_COUNT
CHANNEL_COUNT == 16
\* Synthesizer._PERCUSSION_CHANNEL
PERCUSSION_CHANNEL == 9

\* 1.0 in fixed point
Unit == 10 ^ 3

\* _SoundFontMath.non_audible: 1.0e-3
non_audible == Unit \div 1000

Min(a, b) == IF a < b THEN a ELSE b
Max(a, b) == IF a > b THEN a ELSE b

----------------------------------------------------------------------------
(* Python's bitwise operators on integers.                                 *)

RECURSIVE BitAndNat(_, _)
BitAndNat(a, b) ==
    IF a = 0 \/ b = 0 THEN 0
    ELSE (a % 2) * (b % 2) + 2 * BitAndNat(a \div 2, b \div 2)

RECURSIVE BitOr(_, _)
BitOr(a, b) ==
    IF a = 0 THEN b
    ELSE IF b = 0 THEN a
    ELSE (IF a % 2 = 1 \/ b % 2 = 1 THEN 1 ELSE 0) + 2 * BitOr(a \div 2, b \div 2)

\* x & mask for a mask below 2^16; x may be negative (two's complement).
BitAnd(x, mask) == BitAndNat(x % 65536, mask)

\* x << n
Shl(x, n) == x * (2 ^ n)

----------------------------------------------------------------------------
(* _Channel                                                                *)

\* _Channel.reset
ChannelReset(c) ==
    [c EXCEPT !.bank_number = IF c.is_percussion_channel THEN 128 ELSE 0,
              !.patch_number = 0,
              !.modulation = 0,
              !.volume = Shl(100, 7),
              !.pan = Shl(64, 7),
              !.expression = Shl(127, 7),
              !.hold_pedal = FALSE,
              !.reverb_send = 40,
              !.chorus_send = 0,
              !.rpn = -1,
              !.pitch_bend_range = Shl(2, 7),
              !.coarse_tune = 0,
              !.fine_tune = 8192,
              !.pitch_bend = 0]

\* _Channel.__init__ ; vrpn = -1 stands for "the attribute _vrpn does not exist"
ChannelNew(is_percussion_channel) ==
    ChannelReset([is_percussion_channel |-> is_percussion_channel,
                  bank_number |-> 0, patch_number |-> 0, modulation |-> 0,
                  volume |-> 0, pan |-> 0, expression |-> 0,
                  hold_pedal |-> FALSE, reverb_send |-> 0, chorus_send |-> 0,
                  rpn |-> 0, pitch_bend_range |-> 0, coarse_tune |-> 0,
                  fine_tune |-> 0, pitch_bend |-> 0, vrpn |-> -1])

\* a reset_all_controllers that resets every controller of the channel
ChannelResetEverything(c) == ChannelReset(c)

\* _Channel.reset_all_controllers
ChannelResetAllControllers(c) ==
    [c EXCEPT !.modulation = 0,
              !.expression = Shl(127, 7),
              !.hold_pedal = FALSE,
              !.rpn = -1,
              !.pitch_bend = 0]

\* a set_bank that stores the data byte on every channel
SetBankPlain(c, value) == [c EXCEPT !.bank_number = value]

\* _Channel.set_bank
set_bank(c, value) ==
    [c EXCEPT !.bank_number = IF c.is_percussion_channel THEN value + 128 ELSE value]

\* _Channel.set_patch
set_patch(c, value) == [c EXCEPT !.patch_number = value]

\* the coarse setters: (field & 0x7F) | (value << 7)
SetCoarse(field, value) == BitOr(BitAnd(field, 127), Shl(value, 7))

\* the fine setters: (field & 0xFF80) | value
SetFine(field, value) == BitOr(BitAnd(field, 65408), value)

set_modulation_coarse(c, value) == [c EXCEPT !.modulation = SetCoarse(c.modulation, value)]
set_modulation_fine(c, value) == [c EXCEPT !.modulation = SetFine(c.modulation, value)]
set_volume_coarse(c, value) == [c EXCEPT !.volume = SetCoarse(c.volume, value)]
set_volume_fine(c, value) == [c EXCEPT !.volume = SetFine(c.volume, value)]
set_pan_coarse(c, value) == [c EXCEPT !.pan = SetCoarse(c.pan, value)]
set_pan_fine(c, value) == [c EXCEPT !.pan = SetFine(c.pan, value)]
set_expression_coarse(c, value) == [c EXCEPT !.expression = SetCoarse(c.expression, value)]
set_expression_fine(c, value) == [c EXCEPT !.expression = SetFine(c.expression, value)]

\* _Channel.set_hold_pedal
set_hold_pedal(c, value) == [c EXCEPT !.hold_pedal = (value >= 64)]

set_reverb_send(c, value) == [c EXCEPT !.reverb_send = value]
set_chorus_send(c, value) == [c EXCEPT !.chorus_send = value]

\* _Channel.set_rpn_coarse
set_rpn_coarse(c, value) == [c EXCEPT !.rpn = SetCoarse(c.rpn, value)]

\* _Channel.set_rpn_fine: the assignment goes to the attribute _vrpn
set_rpn_fine(c, value) == [c EXCEPT !.vrpn = SetFine(c.rpn, value)]

\* _Channel.data_entry_coarse
data_entry_coarse(c, value) ==
    CASE c.rpn = 0 -> [c EXCEPT !.pitch_bend_range = SetCoarse(c.pitch_bend_range, value)]
      [] c.rpn = 1 -> [c EXCEPT !.fine_tune = SetCoarse(c.fine_tune, value)]
      [] c.rpn = 2 -> [c EXCEPT !.coarse_tune = value - 64]
      [] OTHER -> c

\* _Channel.data_entry_fine
data_entry_fine(c, value) ==
    CASE c.rpn = 0 -> [c EXCEPT !.pitch_bend_range = SetFine(c.pitch_bend_range, value)]
      [] c.rpn = 1 -> [c EXCEPT !.fine_tune = SetFine(c.fine_tune, value)]
      [] OTHER -> c

\* _Channel.set_pitch_bend, in units of 1/8192
set_pitch_bend(c, value1, value2) ==
    [c EXCEPT !.pitch_bend = BitOr(value1, Shl(value2, 7)) - 8192]

----------------------------------------------------------------------------
(* SoundFont: presets, preset regions, instruments and instrument regions.  *)
(* An instrument region carries the generator values the voice engine      *)
(* reads: ranges, exclusive class, loop mode, sample length and the        *)
(* volume-envelope times (in samples), sustain level and attenuation (in    *)
(* thousandths, already converted to linear).                               *)

\* LoopMode
NO_LOOP == 0
CONTINUOUS == 1
LOOP_UNTIL_NOTE_OFF == 3

InstrumentRegionOf(klo, khi, excl, mode, len, dly, atk, hld, dcy, sus, rel) ==
    [key_range_start |-> klo, key_range_end |-> khi,
     velocity_range_start |-> 0, velocity_range_end |-> 127,
     exclusive_class |-> excl, sample_modes |-> mode, sample_length |-> len,
     delay |-> dly, attack |-> atk, hold |-> hld, decay |-> dcy,
     sustain |-> sus, release |-> rel, attenuation |-> Unit]

PresetRegionOf(klo, khi, instrument) ==
    [key_range_start |-> klo, key_range_end |-> khi,
     velocity_range_start |-> 0, velocity_range_end |-> 127,
     instrument |-> instrument]

PresetOf(bank, patch, regions) ==
    [bank_number |-> bank, patch_number |-> patch, regions |-> regions]

\* a looped piano tone, all keys
RegionPiano == InstrumentRegionOf(0, 127, 0, CONTINUOUS, 4, 0, 1, 1, 2, Unit \div 2, 4)
\* a second layer sounding on the upper keys only, looped until note-off
RegionPad == InstrumentRegionOf(44, 127, 0, LOOP_UNTIL_NOTE_OFF, 3, 1, 1, 1, 2, Unit \div 4, 6)
\* closed and open hi-hat share exclusive class 1; unlooped samples
RegionClosedHat == InstrumentRegionOf(42, 42, 1, NO_LOOP, 3, 1, 1, 1, 4, Unit, 4)
RegionOpenHat == InstrumentRegionOf(46, 46, 1, NO_LOOP, 12, 1, 1, 1, 2, 0, 4)

InstrumentPiano == [regions |-> <<RegionPiano, RegionPad>>]
InstrumentDrums == [regions |-> <<RegionClosedHat, RegionOpenHat>>]

\* bank 0 patch 0 and the standard drum kit
FontGM ==
    [presets |-> <<PresetOf(0, 0, <<PresetRegionOf(0, 127, InstrumentPiano)>>),
                   PresetOf(128, 0, <<PresetRegionOf(0, 127, InstrumentDrums)>>)>>]

\* no drum kit; the presets are not stored in the order of their ids
FontNoDrums ==
    [presets |-> <<PresetOf(1, 5, <<PresetRegionOf(0, 127, InstrumentDrums)>>),
                   PresetOf(0, 5, <<PresetRegionOf(0, 127, InstrumentPiano)>>),
                   PresetOf(0, 1, <<PresetRegionOf(0, 127, InstrumentPiano)>>)>>]

\* a drum kit, a second kit, and one melodic preset in bank 0
FontDrums ==
    [presets |-> <<PresetOf(128, 5, <<PresetRegionOf(0, 127, InstrumentDrums)>>),
                   PresetOf(128, 0, <<PresetRegionOf(0, 127, InstrumentDrums)>>),
                   PresetOf(0, 1, <<PresetRegionOf(0, 127, InstrumentPiano)>>)>>]

\* InstrumentRegion.contains / PresetRegion.contains
contains(region, key, velocity) ==
    /\ region.key_range_start <= key /\ key <= region.key_range_end
    /\ region.velocity_range_start <= velocity
    /\ velocity <= region.velocity_range_end

\* preset_id = (bank_number << 16) | patch_number
PresetId(bank, patch) == BitOr(Shl(bank, 16), patch)

\* Synthesizer.__init__: _preset_lookup[preset_id] = preset, the last one stored wins
RECURSIVE PresetLookupFrom(_, _, _)
PresetLookupFrom(presets, id, i) ==
    IF i = 0 THEN 0
    ELSE IF PresetId(presets[i].bank_number, presets[i].patch_number) = id THEN i
    ELSE PresetLookupFrom(presets, id, i - 1)

\* index of the preset stored under id, 0 when id is not in _preset_lookup
PresetLookup(font, id) == PresetLookupFrom(font.presets, id, Len(font.presets))

\* Synthesizer.__init__: the preset with the minimum id becomes _default_preset
RECURSIVE DefaultPresetFrom(_, _, _, _)
DefaultPresetFrom(presets, i, best, min_preset_id) ==
    IF i > Len(presets) THEN best
    ELSE LET preset_id == PresetId(presets[i].bank_number, presets[i].patch_number)
         IN IF preset_id < min_preset_id
            THEN DefaultPresetFrom(presets, i + 1, i, preset_id)
            ELSE DefaultPresetFrom(presets, i + 1, best, min_preset_id)

\* min_preset_id starts above every preset id
DefaultPreset(font) == DefaultPresetFrom(font.presets, 1, 0, 2147483647)

\* a selection that falls back to bank 0 on every channel, the drum kit forgotten
SelectPresetBankZero(font, channel_info) ==
    IF PresetLookup(font, PresetId(channel_info.bank_number,
                                   channel_info.patch_number)) # 0
    THEN PresetLookup(font, PresetId(channel_info.bank_number,
                                     channel_info.patch_number))
    ELSE IF PresetLookup(font, channel_info.patch_number) # 0
         THEN PresetLookup(font, channel_info.patch_number)
         ELSE DefaultPreset(font)

\* Synthesizer.note_on: the preset selected for a channel, as an index into presets
SelectPreset(font, channel_info) ==
    LET preset_id == PresetId(channel_info.bank_number, channel_info.patch_number)
        gm_preset_id == IF channel_info.bank_number < 128
                        THEN channel_info.patch_number
                        ELSE Shl(128, 16)
    IN IF PresetLookup(font, preset_id) # 0 THEN PresetLookup(font, preset_id)
       ELSE IF PresetLookup(font, gm_preset_id) # 0 THEN PresetLookup(font, gm_preset_id)
       ELSE DefaultPreset(font)

\* Synthesizer.note_on: the instrument regions to start, in the order of the two loops
RECURSIVE MatchingInstrumentRegions(_, _, _, _)
MatchingInstrumentRegions(regions, i, key, velocity) ==
    IF i > Len(regions) THEN <<>>
    ELSE (IF contains(regions[i], key, velocity) THEN <<regions[i]>> ELSE <<>>)
         \o MatchingInstrumentRegions(regions, i + 1, key, velocity)

RECURSIVE MatchingRegions(_, _, _, _)
MatchingRegions(preset_regions, i, key, velocity) ==
    IF i > Len(preset_regions) THEN <<>>
    ELSE (IF contains(preset_regions[i], key, velocity)
          THEN MatchingInstrumentRegions(preset_regions[i].instrument.regions, 1,
                                         key, velocity)
          ELSE <<>>)
         \o MatchingRegions(preset_regions, i + 1, key, velocity)

----------------------------------------------------------------------------
(* _VolumeEnvelope                                                         *)

\* _EnvelopeStage
DELAY == 0
ATTACK == 1
HOLD == 2
DECAY == 3
RELEASE == 4

\* _SoundFontMath.clamp
clamp(value, min, max) ==
    IF value < min THEN min ELSE IF value > max THEN max ELSE value

\* _SoundFontMath.exp_cutoff(-9.226 * num / den): exp(x), and 0 below log(1.0e-3).
\* -9.226 * 3/4 is below log(1.0e-3) = -6.9078, so the result is 0 from 3/4 on.
exp_cutoff(num, den) ==
    LET q == (4 * num) \div den
    IN CASE q <= 0 -> Unit
         [] q = 1 -> (Unit * 99) \div 1000
         [] q = 2 -> (Unit * 9) \div 1000
         [] OTHER -> 0

\* a stage that depends on the time alone
StageByTime(env, stage, current_time) ==
    IF current_time < env.attack_start_time THEN DELAY
    ELSE IF current_time < env.hold_start_time THEN ATTACK
    ELSE IF current_time < env.decay_start_time THEN HOLD
    ELSE DECAY

\* the while loop of _VolumeEnvelope.process: leave every stage whose end has passed
RECURSIVE AdvanceStage(_, _, _)
AdvanceStage(env, stage, current_time) ==
    IF stage <= HOLD
    THEN LET end_time == CASE stage = DELAY -> env.attack_start_time
                           [] stage = ATTACK -> env.hold_start_time
                           [] stage = HOLD -> env.decay_start_time
         IN IF current_time < end_time THEN stage
            ELSE AdvanceStage(env, stage + 1, current_time)
    ELSE stage

\* _VolumeEnvelope.process, the value of the envelope in each stage
VolEnvValue(env, stage, current_time) ==
    CASE stage = DELAY -> 0
      [] stage = ATTACK ->
            (Unit * (current_time - env.attack_start_time)) \div env.attack
      [] stage = HOLD -> Unit
      [] stage = DECAY ->
            Max(exp_cutoff(current_time - env.decay_start_time, env.decay),
                env.sustain_level)
      [] stage = RELEASE ->
            (env.release_level
               * exp_cutoff(current_time - env.release_start_time, env.release))
            \div Unit

\* _VolumeEnvelope.process, the priority of the envelope in each stage
VolEnvPriority(stage, value) ==
    CASE stage = DELAY -> 4 * Unit + value
      [] stage = ATTACK -> 3 * Unit + value
      [] stage = HOLD -> 2 * Unit + value
      [] stage = DECAY -> 1 * Unit + value
      [] stage = RELEASE -> value

\* _VolumeEnvelope.process, the assignments and the return for a stage and value
VolEnvAssign(env, current_time, stage, value) ==
    [env |-> [env EXCEPT !.processed_sample_count = current_time,
                         !.stage = stage,
                         !.value = value,
                         !.priority = VolEnvPriority(stage, value)],
     result |-> IF stage >= DECAY THEN value > non_audible ELSE TRUE]

\* _VolumeEnvelope.process, from the stage the while loop ends in
VolEnvProcessStage(env, current_time, stage) ==
    VolEnvAssign(env, current_time, stage, VolEnvValue(env, stage, current_time))

\* _VolumeEnvelope.process, from the new processed_sample_count
VolEnvProcessAt(env, current_time) ==
    VolEnvProcessStage(env, current_time, AdvanceStage(env, env.stage, current_time))

\* _VolumeEnvelope.process: the envelope afterwards and the value returned
VolEnvProcess(env, sample_count) ==
    VolEnvProcessAt(env, env.processed_sample_count + sample_count)

\* _VolumeEnvelope.start; attack, decay and release stand for the three slopes
VolEnvStart(delay, attack, hold, decay, sustain, release) ==
    VolEnvProcess([attack |-> attack, decay |-> decay, release |-> release,
                   attack_start_time |-> delay,
                   hold_start_time |-> delay + attack,
                   decay_start_time |-> delay + attack + hold,
                   release_start_time |-> 0,
                   sustain_level |-> clamp(sustain, 0, Unit),
                   release_level |-> 0,
                   processed_sample_count |-> 0,
                   stage |-> DELAY,
                   value |-> 0,
                   priority |-> 0], 0).env

\* _VolumeEnvelope.release
VolEnvRelease(env) ==
    [env EXCEPT !.stage = RELEASE,
                !.release_start_time = env.processed_sample_count,
                !.release_level = env.value]

\* _RegionEx.start_volume_envelope: the release time is at least 10 ms
start_volume_envelope(region) ==
    VolEnvStart(region.delay, region.attack, region.hold, region.decay,
                region.sustain, Max(region.release, SampleRate \div 100))

----------------------------------------------------------------------------
(* _Oscillator; the loop of the sample is the whole sample                 *)

\* _Oscillator.start
OscStart(region) ==
    [loop_mode |-> region.sample_modes,
     end |-> region.sample_length,
     start_loop |-> 0,
     end_loop |-> region.sample_length,
     looping |-> (region.sample_modes # NO_LOOP),
     position |-> 0]

\* _Oscillator.release
OscRelease(osc) ==
    IF osc.loop_mode = LOOP_UNTIL_NOTE_OFF THEN [osc EXCEPT !.looping = FALSE] ELSE osc

\* _Oscillator.fill_block_no_loop from sample t of the block on
RECURSIVE fill_block_no_loop(_, _)
fill_block_no_loop(osc, t) ==
    IF t = BlockSize THEN [osc |-> osc, result |-> TRUE]
    ELSE IF osc.position >= osc.end
         THEN [osc |-> osc, result |-> (t > 0)]
         ELSE fill_block_no_loop([osc EXCEPT !.position = osc.position + 1], t + 1)

\* _Oscillator.fill_block_continuous from sample t of the block on
RECURSIVE fill_block_continuous(_, _)
fill_block_continuous(osc, t) ==
    IF t = BlockSize THEN [osc |-> osc, result |-> TRUE]
    ELSE LET position == IF osc.position >= osc.end_loop
                         THEN osc.position - (osc.end_loop - osc.start_loop)
                         ELSE osc.position
         IN fill_block_continuous([osc EXCEPT !.position = position + 1], t + 1)

\* _Oscillator.process / fill_block
OscProcess(osc) ==
    IF osc.looping THEN fill_block_continuous(osc, 0) ELSE fill_block_no_loop(osc, 0)

----------------------------------------------------------------------------
(* _Voice                                                                  *)

\* _VoiceState
PLAYING == 0
RELEASE_REQUESTED == 1
RELEASED == 2

\* Synthesizer.__init__: int(sample_rate / 500)
minimum_voice_duration == SampleRate \div 500

\* _Voice.__init__: a voice that was never started (its note attributes do not exist yet)
VoiceNew(id) ==
    [id |-> id, exclusive_class |-> 0, channel |-> -1, key |-> -1, velocity |-> 0,
     note_gain |-> 0, voice_state |-> PLAYING, voice_length |-> 0,
     vol_env |-> VolEnvStart(1, 1, 1, 1, 0, 1),
     oscillator |-> [loop_mode |-> NO_LOOP, end |-> 0, start_loop |-> 0,
                     end_loop |-> 0, looping |-> FALSE, position |-> 0]]

\* _Voice.start: note_gain = 10^((2 * 20 log10(velocity / 127) - attenuation) / 20)
VoiceStart(voice, region, channel, key, velocity) ==
    [voice EXCEPT !.exclusive_class = region.exclusive_class,
                  !.channel = channel,
                  !.key = key,
                  !.velocity = velocity,
                  !.note_gain = IF velocity > 0
                                THEN (velocity * velocity * region.attenuation)
                                     \div (127 * 127)
                                ELSE 0,
                  !.vol_env = start_volume_envelope(region),
                  !.oscillator = OscStart(region),
                  !.voice_state = PLAYING,
                  !.voice_length = 0]

\* _Voice.end
VoiceEnd(voice) ==
    IF voice.voice_state = PLAYING
    THEN [voice EXCEPT !.voice_state = RELEASE_REQUESTED]
    ELSE voice

\* a kill that leaves the gain of the note as it is
VoiceKept(voice) == voice

\* _Voice.kill
VoiceKill(voice) == [voice EXCEPT !.note_gain = 0]

\* a release_if_necessary that never starts the release
ReleaseNever(voice, channel_info) == voice

\* a release_if_necessary that does not look at the hold pedal
ReleaseDespitePedal(voice, channel_info) ==
    IF voice.voice_length < minimum_voice_duration THEN voice
    ELSE IF voice.voice_state = RELEASE_REQUESTED
         THEN [voice EXCEPT !.vol_env = VolEnvRelease(voice.vol_env),
                            !.oscillator = OscRelease(voice.oscillator),
                            !.voice_state = RELEASED]
         ELSE voice

\* _Voice.release_if_necessary
release_if_necessary(voice, channel_info) ==
    IF voice.voice_length < minimum_voice_duration THEN voice
    ELSE IF voice.voice_state = RELEASE_REQUESTED /\ ~channel_info.hold_pedal
         THEN [voice EXCEPT !.vol_env = VolEnvRelease(voice.vol_env),
                            !.oscillator = OscRelease(voice.oscillator),
                            !.voice_state = RELEASED]
         ELSE voice

\* _Voice.process, after the oscillator has processed (o is what it returned)
VoiceProcessOscillator(voice, o) ==
    IF ~o.result
    THEN [voice |-> [voice EXCEPT !.oscillator = o.osc], result |-> FALSE]
    ELSE [voice |-> [voice EXCEPT !.oscillator = o.osc,
                                  !.voice_length = voice.voice_length + BlockSize],
          result |-> TRUE]

\* _Voice.process, after the volume envelope has processed (e is what it returned)
VoiceProcessEnvelope(voice, e) ==
    IF ~e.result
    THEN [voice |-> [voice EXCEPT !.vol_env = e.env], result |-> FALSE]
    ELSE VoiceProcessOscillator([voice EXCEPT !.vol_env = e.env],
                                OscProcess(voice.oscillator))

\* _Voice.process, after release_if_necessary
VoiceProcessReleased(voice) ==
    VoiceProcessEnvelope(voice, VolEnvProcess(voice.vol_env, BlockSize))

\* _Voice.process: the voice afterwards and the value returned
VoiceProcess(voice, chans) ==
    IF voice.note_gain < non_audible THEN [voice |-> voice, result |-> FALSE]
    ELSE VoiceProcessReleased(release_if_necessary(voice, chans[voice.channel]))

\* _Voice.priority
VoicePriority(voice) ==
    IF voice.note_gain < non_audible THEN 0 ELSE voice.vol_env.priority

----------------------------------------------------------------------------
(* _VoiceCollection: pool[1 .. Len(pool)] are the voice objects,           *)
(* pool[1 .. active_voice_count] the active ones (index i here is index    *)
(* i - 1 of the list _voices).                                              *)

\* _VoiceCollection.__init__
VoiceCollectionNew == [i \in 1 .. MaxPolyphony |-> VoiceNew(i)]

\* a request_new that skips the scan for a voice of the same exclusive class
FindExclusiveSkipped(pool, count, exclusive_class, channel, i) == 0

\* request_new, first loop: the first active voice of the same class and channel, or 0
RECURSIVE FindExclusive(_, _, _, _, _)
FindExclusive(pool, count, exclusive_class, channel, i) ==
    IF i > count THEN 0
    ELSE IF pool[i].exclusive_class = exclusive_class /\ pool[i].channel = channel
         THEN i
         ELSE FindExclusive(pool, count, exclusive_class, channel, i + 1)

\* request_new, last loop: the voice of lowest priority, the older one among equals
RECURSIVE FindCandidate(_, _, _, _, _)
\* a loop body that breaks ties in favour of the voice with the smaller voice_length
FindCandidateStepYounger(pool, count, i, candidate, lowest_priority, priority) ==
    IF priority < lowest_priority
    THEN FindCandidate(pool, count, i + 1, i, priority)
    ELSE IF priority = lowest_priority
            /\ pool[i].voice_length < pool[candidate].voice_length
         THEN FindCandidate(pool, count, i + 1, i, lowest_priority)
         ELSE FindCandidate(pool, count, i + 1, candidate, lowest_priority)

\* the body of the loop for the voice at i, whose priority is priority
FindCandidateStep(pool, count, i, candidate, lowest_priority, priority) ==
    IF priority < lowest_priority
    THEN FindCandidate(pool, count, i + 1, i, priority)
    ELSE IF priority = lowest_priority
            /\ pool[i].voice_length > pool[candidate].voice_length
         THEN FindCandidate(pool, count, i + 1, i, lowest_priority)
         ELSE FindCandidate(pool, count, i + 1, candidate, lowest_priority)

FindCandidate(pool, count, i, candidate, lowest_priority) ==
    IF i > count THEN candidate
    ELSE FindCandidateStep(pool, count, i, candidate, lowest_priority,
                           VoicePriority(pool[i]))

\* _VoiceCollection.request_new: the index of the voice returned and the new count
\* a request_new that hands out a free voice without counting it as active
RequestNewUncounted(pool, count, found) ==
    IF found # 0 THEN [index |-> found, count |-> count]
    ELSE IF count < Len(pool) THEN [index |-> count + 1, count |-> count]
    ELSE [index |-> FindCandidate(pool, count, 1, 1, 1000000 * Unit),
          count |-> count]

\* request_new after the first loop: found is the voice of the same class, or 0
RequestNewAfterExclusive(pool, count, found) ==
    IF found # 0 THEN [index |-> found, count |-> count]
    ELSE IF count < Len(pool) THEN [index |-> count + 1, count |-> count + 1]
    ELSE [index |-> FindCandidate(pool, count, 1, 1, 1000000 * Unit),
          count |-> count]

request_new(pool, count, region, channel) ==
    RequestNewAfterExclusive(pool, count,
        IF region.exclusive_class # 0
        THEN FindExclusive(pool, count, region.exclusive_class, channel, 1)
        ELSE 0)

\* _VoiceCollection.process from index i on
RECURSIVE VoiceCollectionProcessFrom(_, _, _, _)
\* a loop that goes on to the next index after a voice has died
VoiceCollectionProcessSkipping(pool, count, chans, i, p) ==
    IF p.result
    THEN VoiceCollectionProcessFrom([pool EXCEPT ![i] = p.voice], count, chans, i + 1)
    ELSE VoiceCollectionProcessFrom(
             [pool EXCEPT ![i] = pool[count], ![count] = p.voice],
             count - 1, chans, Min(i + 1, count))

\* the body of the loop, p being what process returned for the voice at i
VoiceCollectionProcessStep(pool, count, chans, i, p) ==
    IF p.result
    THEN VoiceCollectionProcessFrom([pool EXCEPT ![i] = p.voice], count, chans, i + 1)
    ELSE VoiceCollectionProcessFrom(
             [pool EXCEPT ![i] = pool[count], ![count] = p.voice],
             count - 1, chans, i)

\* the element of a set of one element; {F(x) : x \in {e}} computes e once
TheOne(S) == CHOOSE r \in S : TRUE

VoiceCollectionProcessFrom(pool, count, chans, i) ==
    IF i = count + 1 THEN [pool |-> pool, count |-> count]
    ELSE TheOne({VoiceCollectionProcessStep(pool, count, chans, i, p) :
                    p \in {VoiceProcess(pool[i], chans)}})

\* _VoiceCollection.process
VoiceCollectionProcess(pool, count, chans) ==
    VoiceCollectionProcessFrom(pool, count, chans, 1)

----------------------------------------------------------------------------
(* Synthesizer: the operations as functions of the synthesizer's state     *)
(* st = [channels, voices, active_voice_count, block_read, block_voices,   *)
(*       note_preset, blocks].                                             *)
(* block_voices is the set of voices (ids) mixed into _block_left and      *)
(* _block_right by the last _render_block; note_preset records the preset  *)
(* (index into presets) the last note_on selected; blocks counts the calls *)
(* of _render_block during the current call of render.                     *)

\* Synthesizer.__init__
SynthesizerNew ==
    [channels |-> [i \in 0 .. CHANNEL_COUNT - 1 |-> ChannelNew(i = PERCUSSION_CHANNEL)],
     voices |-> VoiceCollectionNew,
     active_voice_count |-> 0,
     block_read |-> BlockSize,
     block_voices |-> {},
     note_preset |-> 0,
     blocks |-> 0]

ValidChannel(channel) == 0 <= channel /\ channel < CHANNEL_COUNT

\* Synthesizer.note_off
note_off(st, channel, key) ==
    IF ~ValidChannel(channel) THEN st
    ELSE [st EXCEPT !.voices =
             [i \in DOMAIN st.voices |->
                 IF i <= st.active_voice_count
                    /\ st.voices[i].channel = channel /\ st.voices[i].key = key
                 THEN VoiceEnd(st.voices[i])
                 ELSE st.voices[i]]]

\* Synthesizer.note_on, the two loops: request and start one voice per matching region
\* Synthesizer.note_on, the body of the second loop: r is what request_new returned
StartVoice(st, region, channel, key, velocity, r) ==
    [st EXCEPT !.voices[r.index] =
                   VoiceStart(st.voices[r.index], region, channel, key, velocity),
               !.active_voice_count = r.count]

\* Synthesizer.note_on, the two loops: request and start one voice per matching region
RECURSIVE StartVoices(_, _, _, _, _, _)
StartVoices(st, regions, i, channel, key, velocity) ==
    IF i > Len(regions) THEN st
    ELSE StartVoices(
             StartVoice(st, regions[i], channel, key, velocity,
                        request_new(st.voices, st.active_voice_count, regions[i],
                                    channel)),
             regions, i + 1, channel, key, velocity)

\* Synthesizer.note_on, after the preset (an index into presets) has been selected
NoteOnPreset(font, st, channel, key, velocity, preset) ==
    StartVoices([st EXCEPT !.note_preset = preset],
                MatchingRegions(font.presets[preset].regions, 1, key, velocity),
                1, channel, key, velocity)

\* a note_on that does not treat velocity 0 as a note-off
NoteOnAnyVelocity(font, st, channel, key, velocity) ==
    IF ~ValidChannel(channel) THEN st
    ELSE NoteOnPreset(font, st, channel, key, velocity,
                      SelectPreset(font, st.channels[channel]))

\* Synthesizer.note_on
note_on(font, st, channel, key, velocity) ==
    IF velocity = 0 THEN note_off(st, channel, key)
    ELSE IF ~ValidChannel(channel) THEN st
    ELSE NoteOnPreset(font, st, channel, key, velocity,
                      SelectPreset(font, st.channels[channel]))

\* Synthesizer.note_off_all
note_off_all(st, immediate) ==
    IF immediate THEN [st EXCEPT !.active_voice_count = 0]
    ELSE [st EXCEPT !.voices =
             [i \in DOMAIN st.voices |->
                 IF i <= st.active_voice_count THEN VoiceEnd(st.voices[i])
                 ELSE st.voices[i]]]

\* a note_off_all_channel that does not look at the channel of the voices
NoteOffEveryChannel(st, channel, immediate) == note_off_all(st, immediate)

\* Synthesizer.note_off_all_channel
note_off_all_channel(st, channel, immediate) ==
    [st EXCEPT !.voices =
        [i \in DOMAIN st.voices |->
            IF i <= st.active_voice_count /\ st.voices[i].channel = channel
            THEN (IF immediate THEN VoiceKill(st.voices[i]) ELSE VoiceEnd(st.voices[i]))
            ELSE st.voices[i]]]

\* Synthesizer.reset_all_controllers_channel
reset_all_controllers_channel(st, channel) ==
    IF ~ValidChannel(channel) THEN st
    ELSE [st EXCEPT !.channels[channel] = ChannelResetAllControllers(@)]

\* Synthesizer.process_midi_message, case 0xB0: the controller table
Controller(font, st, channel, data1, data2) ==
    LET set(f) == [st EXCEPT !.channels[channel] = f]
        c == st.channels[channel]
    IN CASE data1 = 0 -> set(set_bank(c, data2))
         [] data1 = 1 -> set(set_modulation_coarse(c, data2))
         [] data1 = 33 -> set(set_modulation_fine(c, data2))
         [] data1 = 6 -> set(data_entry_coarse(c, data2))
         [] data1 = 38 -> set(data_entry_fine(c, data2))
         [] data1 = 7 -> set(set_volume_coarse(c, data2))
         [] data1 = 39 -> set(set_volume_fine(c, data2))
         [] data1 = 10 -> set(set_pan_coarse(c, data2))
         [] data1 = 42 -> set(set_pan_fine(c, data2))
         [] data1 = 11 -> set(set_expression_coarse(c, data2))
         [] data1 = 43 -> set(set_expression_fine(c, data2))
         [] data1 = 64 -> set(set_hold_pedal(c, data2))
         [] data1 = 91 -> set(set_reverb_send(c, data2))
         [] data1 = 93 -> set(set_chorus_send(c, data2))
         [] data1 = 101 -> set(set_rpn_coarse(c, data2))
         [] data1 = 100 -> set(set_rpn_fine(c, data2))
         [] data1 = 120 -> note_off_all_channel(st, channel, TRUE)
         [] data1 = 121 -> reset_all_controllers_channel(st, channel)
         [] data1 = 123 -> note_off_all_channel(st, channel, FALSE)
         [] OTHER -> st

\* Synthesizer.process_midi_message
process_midi_message(font, st, channel, command, data1, data2) ==
    IF ~ValidChannel(channel) THEN st
    ELSE CASE command = 128 -> note_off(st, channel, data1)
           [] command = 144 -> note_on(font, st, channel, data1, data2)
           [] command = 176 -> Controller(font, st, channel, data1, data2)
           [] command = 192 ->
                 [st EXCEPT !.channels[channel] = set_patch(@, data1)]
           [] command = 224 ->
                 [st EXCEPT !.channels[channel] = set_pitch_bend(@, data1, data2)]
           [] OTHER -> st

\* a reset that leaves the block cursor where it is
ResetKeepingCursor(st) ==
    [st EXCEPT !.active_voice_count = 0,
               !.channels = [i \in DOMAIN st.channels |-> ChannelReset(st.channels[i])]]

\* Synthesizer.reset
reset(st) ==
    [st EXCEPT !.active_voice_count = 0,
               !.channels = [i \in DOMAIN st.channels |-> ChannelReset(st.channels[i])],
               !.block_read = BlockSize]

\* Synthesizer._render_block: process the voices, then mix every active voice
RenderBlockMix(st, p) ==
    [st EXCEPT !.voices = p.pool,
               !.active_voice_count = p.count,
               !.block_voices = {p.pool[i].id : i \in 1 .. p.count},
               !.blocks = st.blocks + 1]

render_block(st) ==
    TheOne({RenderBlockMix(st, p) :
               p \in {VoiceCollectionProcess(st.voices, st.active_voice_count,
                                             st.channels)}})

----------------------------------------------------------------------------
(* MidiFile and MidiFileSequencer.  A MidiFile is its merged message list  *)
(* and the list of their times; a message is its four data bytes.  The     *)
(* sequencer sq = [played, midi_file, loop, block_wrote, current_time,     *)
(* msg_index, count, wrote, rem, log, events_time]: midi_file is an index  *)
(* into MidiFiles or 0 (None); count, wrote and rem are the locals of      *)
(* render; log lists the messages _process_events has dispatched since the *)
(* file was started or restarted, and events_time is the current_time it   *)
(* last compared message times with since then (-1: none yet); frames is   *)
(* the number of sample frames render has produced since then, and log_at  *)
(* lists, for each message in log, the value of frames at its dispatch.    *)

\* _MidiMessageType
NORMAL == 0
TEMPO_CHANGE == 252
END_OF_TRACK == 255

\* _MidiMessage.__init__
MidiMessage(channel, command, data1, data2) ==
    [channel |-> channel % 256, command |-> command % 256,
     data1 |-> data1 % 256, data2 |-> data2 % 256]

\* _MidiMessage.type
MessageType(msg) ==
    IF msg.channel = TEMPO_CHANGE THEN TEMPO_CHANGE
    ELSE IF msg.channel = END_OF_TRACK THEN END_OF_TRACK
    ELSE NORMAL

\* two tracks: a piano note, and a hi-hat on the percussion channel
FileSong ==
    [messages |-> <<MidiMessage(0, 144, 42, 100), MidiMessage(END_OF_TRACK, 0, 0, 0),
                    MidiMessage(0, 128, 42, 0), MidiMessage(9, 144, 46, 100),
                    MidiMessage(END_OF_TRACK, 0, 0, 0)>>,
     times |-> <<0, 1, 2, 3, 3>>]

\* one track whose only note starts inside the first block
FileShort ==
    [messages |-> <<MidiMessage(0, 144, 46, 100), MidiMessage(END_OF_TRACK, 0, 0, 0)>>,
     times |-> <<1, 1>>]

MidiFiles == <<FileSong, FileShort>>

\* MidiFile.length: the time of the last message
MidiFileLength(file) == file.times[Len(file.times)]

\* MidiFileSequencer.__init__: nothing has been played yet
SequencerNew ==
    [played |-> FALSE, midi_file |-> 0, loop |-> FALSE, block_wrote |-> 0,
     current_time |-> 0, msg_index |-> 0, count |-> 0, wrote |-> 0, rem |-> 0,
     log |-> <<>>, events_time |-> -1, frames |-> 0, log_at |-> <<>>]

\* a loop that dispatches a message only when its time is before current_time
RECURSIVE DispatchEventsLate(_, _, _, _)
DispatchEventsLate(sound_font, file, sq, st) ==
    IF sq.msg_index < Len(file.messages)
       /\ file.times[sq.msg_index + 1] < sq.current_time
    THEN DispatchEventsLate(sound_font, file,
             [sq EXCEPT !.msg_index = sq.msg_index + 1,
                        !.log = Append(sq.log, sq.msg_index + 1),
                        !.log_at = Append(sq.log_at, sq.frames)],
             IF MessageType(file.messages[sq.msg_index + 1]) = NORMAL
             THEN process_midi_message(sound_font, st,
                                       file.messages[sq.msg_index + 1].channel,
                                       file.messages[sq.msg_index + 1].command,
                                       file.messages[sq.msg_index + 1].data1,
                                       file.messages[sq.msg_index + 1].data2)
             ELSE st)
    ELSE [seq |-> sq, synth |-> st]

\* MidiFileSequencer._process_events, the while loop: message msg_index + 1 of
\* the lists (index msg_index in the code) is dispatched while it is due
RECURSIVE DispatchEvents(_, _, _, _)
DispatchEvents(sound_font, file, sq, st) ==
    IF sq.msg_index < Len(file.messages)
       /\ file.times[sq.msg_index + 1] <= sq.current_time
    THEN DispatchEvents(sound_font, file,
             [sq EXCEPT !.msg_index = sq.msg_index + 1,
                        !.log = Append(sq.log, sq.msg_index + 1),
                        !.log_at = Append(sq.log_at, sq.frames)],
             IF MessageType(file.messages[sq.msg_index + 1]) = NORMAL
             THEN process_midi_message(sound_font, st,
                                       file.messages[sq.msg_index + 1].channel,
                                       file.messages[sq.msg_index + 1].command,
                                       file.messages[sq.msg_index + 1].data1,
                                       file.messages[sq.msg_index + 1].data2)
             ELSE st)
    ELSE [seq |-> sq, synth |-> st]

\* a _process_events that does not restart at the end of the file
ProcessEventsOnce(file, r) == r

\* MidiFileSequencer._process_events, after the while loop: the restart of a loop
ProcessEventsRestart(file, r) ==
    IF r.seq.msg_index = Len(file.messages) /\ r.seq.loop
    THEN [seq |-> [r.seq EXCEPT !.current_time = 0, !.msg_index = 0,
                                !.log = <<>>, !.events_time = -1,
                                !.frames = 0, !.log_at = <<>>],
          synth |-> note_off_all(r.synth, FALSE)]
    ELSE r

\* a _process_events that goes back to the message it dispatched last
ProcessEventsAgain(sound_font, sq, st) ==
    IF sq.midi_file = 0 THEN [seq |-> sq, synth |-> st]
    ELSE ProcessEventsRestart(MidiFiles[sq.midi_file],
             DispatchEvents(sound_font, MidiFiles[sq.midi_file],
                            [sq EXCEPT !.events_time = sq.current_time,
                                       !.msg_index = Max(0, sq.msg_index - 1)], st))

\* MidiFileSequencer._process_events
process_events(sound_font, sq, st) ==
    IF sq.midi_file = 0 THEN [seq |-> sq, synth |-> st]
    ELSE ProcessEventsRestart(MidiFiles[sq.midi_file],
             DispatchEvents(sound_font, MidiFiles[sq.midi_file],
                            [sq EXCEPT !.events_time = sq.current_time], st))

\* a render that moves current_time on by two blocks for each block
SequencerAdvanceTwice(r) ==
    [r EXCEPT !.seq.block_wrote = 0,
              !.seq.current_time = r.seq.current_time + 2 * BlockSize]

\* MidiFileSequencer.render, "if self._block_wrote == self._synthesizer.block_size"
SequencerAdvance(r) ==
    [r EXCEPT !.seq.block_wrote = 0,
              !.seq.current_time = r.seq.current_time + BlockSize]

\* MidiFileSequencer.render, the loop body up to the call of Synthesizer.render
SequencerStep(sound_font, sq, st) ==
    IF sq.block_wrote = BlockSize
    THEN SequencerAdvance(process_events(sound_font, sq, st))
    ELSE [seq |-> sq, synth |-> st]

----------------------------------------------------------------------------
(* _BinaryReaderEx on a BufferedReader.  A reader rd = [data, pos] is the  *)
(* bytes of the file and the position of the next byte; read(n) returns    *)
(* the bytes that are left, at most n, and int.from_bytes of no bytes is 0.*)

\* the sequences of at most n elements of a set
ByteSeqs(bytes, n) == UNION {[1 .. k -> bytes] : k \in 0 .. n}

\* reader.read(1) turned into an unsigned integer, and the reader afterwards
read_uint8(rd) ==
    IF rd.pos < Len(rd.data)
    THEN [value |-> rd.data[rd.pos + 1], rd |-> [rd EXCEPT !.pos = rd.pos + 1]]
    ELSE [value |-> 0, rd |-> rd]

\* an accumulation that keeps the continuation bit of the byte
VlqAccumulateUnmasked(acc, value) == BitOr(Shl(acc, 7), value)

\* read_int_variable_length: acc = (acc << 7) | (value & 127)
VlqAccumulate(acc, value) == BitOr(Shl(acc, 7), BitAnd(value, 127))

\* read_int_variable_length, the loop from its count-th iteration on: the
\* reader afterwards, the value returned, and whether it raised
RECURSIVE ReadVlqFrom(_, _, _)
\* the body of the loop, b being what read_uint8 returned
ReadVlqStep(b, acc, count) ==
    IF BitAnd(b.value, 128) = 0
    THEN [rd |-> b.rd, value |-> VlqAccumulate(acc, b.value), error |-> FALSE]
    ELSE IF count + 1 = 4
         THEN [rd |-> b.rd, value |-> 0, error |-> TRUE]
         ELSE ReadVlqFrom(b.rd, VlqAccumulate(acc, b.value), count + 1)

ReadVlqFrom(rd, acc, count) ==
    TheOne({ReadVlqStep(b, acc, count) : b \in {read_uint8(rd)}})

\* _BinaryReaderEx.read_int_variable_length
read_int_variable_length(rd) == ReadVlqFrom(rd, 0, 0)

\* reader.read(n): the bytes returned and the reader afterwards
ReaderRead(rd, n) ==
    IF rd.pos >= Len(rd.data)
    THEN [bytes |-> <<>>, rd |-> rd]
    ELSE [bytes |-> SubSeq(rd.data, rd.pos + 1, Min(rd.pos + n, Len(rd.data))),
          rd |-> [rd EXCEPT !.pos = Min(rd.pos + n, Len(rd.data))]]

\* reader.seek(size, io.SEEK_CUR); a position past the end is allowed
ReaderSkip(rd, size) == [rd EXCEPT !.pos = rd.pos + size]

\* int.from_bytes(bytes, byteorder="big", signed=True)
RECURSIVE FromBytesBigSigned(_)
FromBytesBigSigned(bytes) ==
    IF Len(bytes) = 0 THEN 0
    ELSE IF Len(bytes) = 1
         THEN (IF bytes[1] >= 128 THEN bytes[1] - 256 ELSE bytes[1])
         ELSE 256 * FromBytesBigSigned(SubSeq(bytes, 1, Len(bytes) - 1))
                + bytes[Len(bytes)]

\* _BinaryReaderEx.read_int32_big_endian / read_int16_big_endian
ReadIntBigEndian(r) == [value |-> FromBytesBigSigned(r.bytes), rd |-> r.rd]
read_int32_big_endian(rd) == ReadIntBigEndian(ReaderRead(rd, 4))
read_int16_big_endian(rd) == ReadIntBigEndian(ReaderRead(rd, 2))

\* _BinaryReaderEx.read_four_cc: bytes outside 32 .. 126 become '?'
FourCC(r) ==
    [value |-> [i \in 1 .. Len(r.bytes) |->
                   IF 32 <= r.bytes[i] /\ r.bytes[i] <= 126 THEN r.bytes[i] ELSE 63],
     rd |-> r.rd]
read_four_cc(rd) == FourCC(ReaderRead(rd, 4))

\* "MThd" and "MTrk"
MThd == <<77, 84, 104, 100>>
MTrk == <<77, 84, 114, 107>>

----------------------------------------------------------------------------
(* MidiFile: the header, the tracks and the merge.  A track being read is  *)
(* t = [rd, messages, ticks, tick, last_status, end, state, marks,         *)
(* voice_status]; state is "event" inside the loop of _read_track, "end"   *)
(* after its return and "error" after an exception.  voice_status is the   *)
(* most recent status byte in 0x80 .. 0xEF of the track (0: none), and     *)
(* marks lists for each message the voice_status at the moment it was read *)
(* through running status, or -1 for a message with a status byte of its   *)
(* own.  Merged times are counted in units of TimeUnit microseconds        *)
(* divided by |resolution|; the tempo values of the files explored are     *)
(* multiples of TimeUnit microseconds per quarter note.                    *)

\* _MidiMessage.common1
common1(status, data1) ==
    MidiMessage(BitAnd(status, 15), BitAnd(status, 240), data1, 0)

\* _MidiMessage.common2
common2(status, data1, data2) ==
    MidiMessage(BitAnd(status, 15), BitAnd(status, 240), data1, data2)

\* _MidiMessage.tempo_change
tempo_change(tempo) ==
    MidiMessage(TEMPO_CHANGE, tempo \div 65536, tempo \div 256, tempo)

\* _MidiMessage.end_of_track
end_of_track == MidiMessage(END_OF_TRACK, 0, 0, 0)

\* the denominator of _MidiMessage.tempo: microseconds per quarter note
MessageTempoValue(msg) == msg.command * 65536 + msg.data1 * 256 + msg.data2

\* the track after messages.append(msg); ticks.append(tick); mark is the ghost
TrackAppend(t, rd, msg, mark) ==
    [t EXCEPT !.rd = rd,
              !.messages = Append(t.messages, msg),
              !.ticks = Append(t.ticks, t.tick),
              !.marks = Append(t.marks, mark)]

\* MidiFile.discard_data, v being what read_int_variable_length returned
DiscardData(t, v) ==
    IF v.error THEN [t EXCEPT !.rd = v.rd, !.state = "error"]
    ELSE [t EXCEPT !.rd = ReaderSkip(v.rd, v.value)]

\* MidiFile.read_tempo after the size, and the append of the tempo message
ReadTempoBytes(t, b1, b2, b3) ==
    TrackAppend(t, b3.rd,
                tempo_change(b1.value * 65536 + b2.value * 256 + b3.value), -1)

ReadTempoFrom2(t, b1, b2) == ReadTempoBytes(t, b1, b2, read_uint8(b2.rd))
ReadTempoFrom1(t, b1) == ReadTempoFrom2(t, b1, read_uint8(b1.rd))

\* MidiFile.read_tempo, v being what read_int_variable_length returned
ReadTempo(t, v) ==
    IF v.error \/ v.value # 3 THEN [t EXCEPT !.rd = v.rd, !.state = "error"]
    ELSE ReadTempoFrom1(t, read_uint8(v.rd))

\* _read_track, End of Track: l is the read of the length byte
ReadEndOfTrack(t, l) ==
    [TrackAppend(t, l.rd, end_of_track, -1) EXCEPT
        !.rd = IF l.rd.pos < t.end THEN [l.rd EXCEPT !.pos = t.end] ELSE l.rd,
        !.state = "end"]

\* _read_track, Meta Event: m is the read of the type byte
ReadMeta(t, m) ==
    IF m.value = 47 THEN ReadEndOfTrack(t, read_uint8(m.rd))
    ELSE IF m.value = 81 THEN ReadTempo(t, read_int_variable_length(m.rd))
    ELSE DiscardData([t EXCEPT !.rd = m.rd], read_int_variable_length(m.rd))

\* _read_track, a message of two data bytes after data1 (d1) has been read
ReadCommon2(t, status, d1, d2, mark) ==
    TrackAppend(t, d2.rd, common2(status, d1.value, d2.value), mark)

\* _read_track, a channel message with its status byte: d1 is the read of data1
ReadChannelMessage(t, first, d1) ==
    IF BitAnd(first, 240) = 192 \/ BitAnd(first, 240) = 208
    THEN TrackAppend(t, d1.rd, common1(first, d1.value), -1)
    ELSE ReadCommon2(t, first, d1, read_uint8(d1.rd), -1)

\* _read_track, "if (first & 128) == 0": f is the read of first
ReadRunningStatus(t, f) ==
    IF BitAnd(t.last_status, 240) = 192 \/ BitAnd(t.last_status, 240) = 208
    THEN TrackAppend(t, f.rd, common1(t.last_status, f.value), t.voice_status)
    ELSE ReadCommon2(t, t.last_status, f, read_uint8(f.rd), t.voice_status)

\* _read_track, "match first", and "last_status = first" unless it returned
ReadStatus(t, f) ==
    IF f.value = 240 \/ f.value = 247
    THEN DiscardData([t EXCEPT !.last_status = f.value],
                     read_int_variable_length(f.rd))
    ELSE IF f.value = 255
         THEN ReadMeta([t EXCEPT !.last_status = f.value], read_uint8(f.rd))
         ELSE ReadChannelMessage(
                  [t EXCEPT !.last_status = f.value,
                            !.voice_status = IF f.value < 240 THEN f.value
                                             ELSE t.voice_status],
                  f.value, read_uint8(f.rd))

\* _read_track, one iteration of "while True" after delta (v) and first (f)
ReadEventFirst(t, f) ==
    IF BitAnd(f.value, 128) = 0 THEN ReadRunningStatus(t, f) ELSE ReadStatus(t, f)

ReadEventDelta(t, v) ==
    IF v.error THEN [t EXCEPT !.rd = v.rd, !.state = "error"]
    ELSE TheOne({ReadEventFirst([t EXCEPT !.tick = t.tick + v.value], f) :
                    f \in {read_uint8(v.rd)}})

\* _read_track, one iteration of "while True"
ReadTrackEvent(t) ==
    TheOne({ReadEventDelta(t, v) : v \in {read_int_variable_length(t.rd)}})

\* _read_track up to the loop: cc and e are the reads of the chunk type and size
ReadTrackStart(cc, e) ==
    [rd |-> IF cc.value = MTrk THEN e.rd ELSE cc.rd,
     messages |-> <<>>, ticks |-> <<>>, tick |-> 0, last_status |-> 0,
     end |-> e.value + e.rd.pos,
     state |-> IF cc.value = MTrk THEN "event" ELSE "error",
     marks |-> <<>>, voice_status |-> 0]

ReadTrackChunk(cc) == ReadTrackStart(cc, read_int32_big_endian(cc.rd))

\* MidiFile.__init__ up to the tracks: the reader afterwards, whether it raised,
\* and track_count and resolution
MidiHeaderFields(format, track_count, resolution) ==
    [rd |-> resolution.rd,
     error |-> ~(format.value = 0 \/ format.value = 1),
     track_count |-> track_count.value,
     resolution |-> resolution.value]

MidiHeaderCounts(format, track_count) ==
    MidiHeaderFields(format, track_count, read_int16_big_endian(track_count.rd))

MidiHeaderFormat(format) ==
    IF ~(format.value = 0 \/ format.value = 1)
    THEN [rd |-> format.rd, error |-> TRUE, track_count |-> 0, resolution |-> 0]
    ELSE MidiHeaderCounts(format, read_int16_big_endian(format.rd))

MidiHeaderSize(size) ==
    IF size.value # 6
    THEN [rd |-> size.rd, error |-> TRUE, track_count |-> 0, resolution |-> 0]
    ELSE MidiHeaderFormat(read_int16_big_endian(size.rd))

MidiHeaderType(cc) ==
    IF cc.value # MThd
    THEN [rd |-> cc.rd, error |-> TRUE, track_count |-> 0, resolution |-> 0]
    ELSE MidiHeaderSize(read_int32_big_endian(cc.rd))

MidiHeader(rd) == MidiHeaderType(read_four_cc(rd))

\* _merge_tracks, the for loop from track ch on: the track whose next tick is
\* the smallest, the first of them, or 0 when no track has a message left
\* (min_index 0 stands for the code's -1, and its min_tick of 10^10 is above
\* every tick of the files explored)
RECURSIVE MergeScan(_, _, _, _, _)
MergeScan(tick_lists, indices, ch, min_tick, min_index) ==
    IF ch > Len(tick_lists) THEN min_index
    ELSE IF /\ indices[ch] < Len(tick_lists[ch])
            /\ (min_index = 0 \/ tick_lists[ch][indices[ch] + 1] < min_tick)
         THEN MergeScan(tick_lists, indices, ch + 1,
                        tick_lists[ch][indices[ch] + 1], ch)
         ELSE MergeScan(tick_lists, indices, ch + 1, min_tick, min_index)

\* microseconds in the unit of the merged times, before the division by
\* |resolution|
TimeUnit == 500

\* 60.0 / (resolution * tempo) * delta_tick, tempo being 60000000.0 / uspq
DeltaTime(resolution, uspq, delta_tick) ==
    IF resolution > 0 THEN (uspq \div TimeUnit) * delta_tick
    ELSE 0 - (uspq \div TimeUnit) * delta_tick

\* _merge_tracks, the loop body after current_tick and current_time have moved
MergeMessage(m, message, track, tick) ==
    IF MessageType(message) = TEMPO_CHANGE
    THEN IF MessageTempoValue(message) = 0
         THEN [m EXCEPT !.error = TRUE]
         ELSE [m EXCEPT !.uspq = MessageTempoValue(message),
                        !.indices[track] = m.indices[track] + 1]
    ELSE [m EXCEPT !.merged = Append(m.merged,
                       [message |-> message, time |-> m.current_time,
                        track |-> track, index |-> m.indices[track] + 1,
                        tick |-> tick]),
                   !.indices[track] = m.indices[track] + 1]

\* _merge_tracks, the loop body for the track min_index: a resolution of 0
\* raises ZeroDivisionError
MergeStep(message_lists, tick_lists, resolution, m, min_index) ==
    IF resolution = 0 THEN [m EXCEPT !.error = TRUE]
    ELSE MergeMessage(
             [m EXCEPT !.current_tick = tick_lists[min_index][m.indices[min_index] + 1],
                       !.current_time = m.current_time
                           + DeltaTime(resolution, m.uspq,
                                 tick_lists[min_index][m.indices[min_index] + 1]
                                   - m.current_tick)],
             message_lists[min_index][m.indices[min_index] + 1],
             min_index,
             tick_lists[min_index][m.indices[min_index] + 1])

\* _merge_tracks, "while True"
RECURSIVE MergeLoop(_, _, _, _)
MergeNext(message_lists, tick_lists, resolution, m, min_index) ==
    IF min_index = 0 \/ m.error THEN m
    ELSE MergeLoop(message_lists, tick_lists, resolution,
                   MergeStep(message_lists, tick_lists, resolution, m, min_index))

MergeLoop(message_lists, tick_lists, resolution, m) ==
    TheOne({MergeNext(message_lists, tick_lists, resolution, v,
                      MergeScan(tick_lists, v.indices, 1, 0, 0)) : v \in {m}})

\* MidiFile._merge_tracks: tempo 120 is 500000 microseconds per quarter note
merge_tracks(message_lists, tick_lists, resolution) ==
    MergeLoop(message_lists, tick_lists, resolution,
              [indices |-> [ch \in 1 .. Len(message_lists) |-> 0],
               current_tick |-> 0, current_time |-> 0, uspq |-> 500000,
               merged |-> <<>>, error |-> FALSE])

----------------------------------------------------------------------------
(* The state.                                                              *)

VARIABLES
    font,       \* the SoundFont the synthesizer was built with
    synth,      \* the Synthesizer (see SynthesizerNew)
    pc,         \* "idle", or the loop a render call is in: "render", "seq_render"
    frame,      \* locals of Synthesizer.render: offset, count, wrote, and its caller
    left,       \* the caller's output buffers during a render call;
    right,      \*   Untouched where the call has not written
    ops,        \* number of MIDI operations performed so far
    last,       \* the operation performed last (see NoOp)
    probe,      \* the note_on / note_off pair under observation (see NoProbe)
    seq,        \* the MidiFileSequencer (see SequencerNew)
    load        \* the file being loaded, its reader and what was read (see NoLoad)

vars == <<font, synth, pc, frame, left, right, ops, last, probe, seq, load>>

\* the content of a buffer element no render call has written
Untouched == {0}

FreshBuffer == [i \in 0 .. BufferLength - 1 |-> Untouched]

NoFrame == [offset |-> 0, count |-> 0, wrote |-> 0, start_read |-> 0, caller |-> "none"]

ActiveVoices == {i \in 1 .. MaxPolyphony : i <= synth.active_voice_count}

\* number of active voices on a channel
ChannelVoiceCount(st, channel) ==
    Cardinality({i \in 1 .. st.active_voice_count : st.voices[i].channel = channel})

\* the voice objects that are active
ActiveIds(st) == {st.voices[i].id : i \in 1 .. st.active_voice_count}

\* A note_on followed by note_off(channel, key) under observation: prior is the
\* number of active voices on the channel before the note_on, voices the voice
\* objects the note_on started; phase is "free" before the note_on, "on" after
\* it, "tail" after the note_off and "done" once a _render_block has left none
\* of these voices active, final being the number of active voices on the
\* channel at that moment.
NoProbe ==
    [phase |-> "free", channel |-> 0, key |-> 0, prior |-> 0, voices |-> {},
     final |-> 0]

\* the voice objects started between the states st and st1
StartedVoices(st, st1) ==
    {st1.voices[i].id :
        i \in {j \in 1 .. st1.active_voice_count :
                  j > st.active_voice_count \/ st1.voices[j] # st.voices[j]}}

\* the observation after an iteration of render that went from st to st1
ProbeAfterBlock(st, st1) ==
    IF /\ probe.phase = "tail"
       /\ st.block_read = BlockSize
       /\ probe.voices \cap ActiveIds(st1) = {}
    THEN [probe EXCEPT !.phase = "done",
                       !.final = ChannelVoiceCount(st1, probe.channel)]
    ELSE probe

\* Render is explored while no voice has run longer than this; the release
\* tail of an observed note may run six blocks longer.
VoiceLengthCap ==
    IF probe.phase = "tail" THEN MaxVoiceLength + 6 * BlockSize ELSE MaxVoiceLength

\* The record of the operation performed last: its name and arguments, the
\* active_voice_count it found, and for a note-on with velocity > 0 the exclusive
\* classes of the regions it started (classes), the number of note-ons of class 0
\* that followed one another up to it (burst), and whether the operation before
\* was a note-on on the same channel sharing a non-zero class with it (pair).
OpRecord(op, channel, key, velocity, classes, burst, pair) ==
    [op |-> op, channel |-> channel, key |-> key, velocity |-> velocity,
     before |-> synth.active_voice_count,
     classes |-> classes, burst |-> burst, pair |-> pair]

Op(op, channel, key, velocity) == OpRecord(op, channel, key, velocity, {}, 0, FALSE)

NoOp == [op |-> "none", channel |-> 0, key |-> 0, velocity |-> 0, before |-> 0,
         classes |-> {}, burst |-> 0, pair |-> FALSE]

\* the exclusive classes of the regions a note-on starts
NoteOnClasses(channel, key, velocity) ==
    IF velocity = 0 \/ ~ValidChannel(channel) THEN {}
    ELSE {region.exclusive_class :
            region \in {MatchingRegions(
                            font.presets[SelectPreset(font, synth.channels[channel])]
                                .regions, 1, key, velocity)[i] :
                        i \in 1 .. Len(MatchingRegions(
                            font.presets[SelectPreset(font, synth.channels[channel])]
                                .regions, 1, key, velocity))}}

NoteOnRecord(channel, key, velocity, classes) ==
    OpRecord("note_on", channel, key, velocity, classes,
             IF classes = {0} THEN last.burst + 1 ELSE 0,
             /\ last.op = "note_on"
             /\ last.channel = channel
             /\ (classes \cap last.classes) \ {0} # {})

----------------------------------------------------------------------------
(* The operations of the Synthesizer as actions.                           *)

MidiOp(st, op) ==
    /\ pc = "idle"
    /\ ops < MaxOps
    /\ ops' = ops + 1
    /\ synth' = st
    /\ last' = op
    /\ UNCHANGED <<font, pc, frame, left, right, probe, seq, load>>

\* Synthesizer.note_on
NoteOn(channel, key, velocity) ==
    MidiOp(note_on(font, synth, channel, key, velocity),
           NoteOnRecord(channel, key, velocity, NoteOnClasses(channel, key, velocity)))

\* Synthesizer.note_off
NoteOff(channel, key) == MidiOp(note_off(synth, channel, key), Op("note_off", channel, key, 0))

\* Synthesizer.process_midi_message
ProcessMidiMessage(channel, command, data1, data2) ==
    MidiOp(process_midi_message(font, synth, channel, command, data1, data2),
           IF command = 144
           THEN NoteOnRecord(channel, data1, data2, NoteOnClasses(channel, data1, data2))
           ELSE Op("process_midi_message", channel, data1, data2))

\* Synthesizer.note_off_all
NoteOffAll(immediate) == MidiOp(note_off_all(synth, immediate), Op("note_off_all", 0, 0, 0))

\* Synthesizer.reset
Reset == MidiOp(reset(synth), Op("reset", 0, 0, 0))

\* number of calls of _render_block a render of count samples makes
BlocksNeeded(block_read, count) ==
    IF count <= BlockSize - block_read THEN 0
    ELSE (count - (BlockSize - block_read) + BlockSize - 1) \div BlockSize

\* Synthesizer.render, entry: offset and count name a part of the buffers.
\* The call is explored while no voice would run past MaxVoiceLength.
RenderCall(offset, count) ==
    /\ pc = "idle"
    /\ 0 <= offset /\ 0 <= count /\ offset + count <= BufferLength
    /\ \A i \in ActiveVoices :
          synth.voices[i].voice_length
              + BlockSize * BlocksNeeded(synth.block_read, count) <= VoiceLengthCap
    /\ pc' = "render"
    /\ frame' = [offset |-> offset, count |-> count, wrote |-> 0,
                 start_read |-> synth.block_read, caller |-> "user"]
    /\ left' = FreshBuffer
    /\ right' = FreshBuffer
    /\ last' = Op("render", 0, 0, 0)
    /\ UNCHANGED <<font, synth, ops, probe, seq, load>>

\* Synthesizer.render, "if self._block_read == self._block_size": the new block
RenderRefill(st) ==
    IF st.block_read = BlockSize
    THEN [render_block(st) EXCEPT !.block_read = 0]
    ELSE st

\* a copy that forgets the offset the caller asked for
CopyBlockAtStart(buffer, st, fr, rem) ==
    [i \in DOMAIN buffer |->
        IF \E t \in 0 .. rem - 1 : i = fr.wrote + t
        THEN st.block_voices \cup {1 + st.block_read + (i - fr.wrote)}
        ELSE buffer[i]]

\* Synthesizer.render, the copy of rem samples of the block into a buffer: a
\* sample is the set of voices mixed into the block and its position in the block
CopyBlock(buffer, st, fr, rem) ==
    [i \in DOMAIN buffer |->
        IF \E t \in 0 .. rem - 1 : i = fr.offset + fr.wrote + t
        THEN st.block_voices \cup {1 + st.block_read + (i - fr.offset - fr.wrote)}
        ELSE buffer[i]]

\* Synthesizer.render, one iteration of "while wrote < count"
RenderLoop ==
    /\ pc = "render"
    /\ frame.wrote < frame.count
    /\ \E st \in {RenderRefill(synth)} :
          \E rem \in {Min(BlockSize - st.block_read, frame.count - frame.wrote)} :
             /\ synth' = [st EXCEPT !.block_read = st.block_read + rem]
             /\ frame' = [frame EXCEPT !.wrote = frame.wrote + rem]
             /\ left' = CopyBlock(left, st, frame, rem)
             /\ right' = CopyBlock(right, st, frame, rem)
             /\ probe' = ProbeAfterBlock(synth, st)
    /\ UNCHANGED <<font, pc, ops, last, seq, load>>

\* Synthesizer.render, return to the caller, who owns the buffers
RenderReturn ==
    /\ pc = "render"
    /\ frame.wrote >= frame.count
    /\ frame.caller = "user"
    /\ pc' = "idle"
    /\ frame' = NoFrame
    /\ left' = FreshBuffer
    /\ right' = FreshBuffer
    /\ synth' = [synth EXCEPT !.blocks = 0]
    /\ UNCHANGED <<font, ops, last, probe, seq, load>>

----------------------------------------------------------------------------
(* The operations of the MidiFileSequencer as actions.                     *)

\* a play that leaves the block cursor of the sequencer where it is
PlayKeepingCursor(midi_file, loop) ==
    /\ pc = "idle"
    /\ ops < MaxOps
    /\ ops' = ops + 1
    /\ seq' = [played |-> TRUE, midi_file |-> midi_file, loop |-> loop,
               block_wrote |-> seq.block_wrote, current_time |-> 0, msg_index |-> 0,
               count |-> 0, wrote |-> 0, rem |-> 0, log |-> <<>>, events_time |-> -1,
               frames |-> 0, log_at |-> <<>>]
    /\ synth' = reset(synth)
    /\ last' = Op("play", 0, 0, 0)
    /\ UNCHANGED <<font, pc, frame, left, right, probe, load>>

\* MidiFileSequencer.play
Play(midi_file, loop) ==
    /\ pc = "idle"
    /\ ops < MaxOps
    /\ ops' = ops + 1
    /\ seq' = [played |-> TRUE, midi_file |-> midi_file, loop |-> loop,
               block_wrote |-> BlockSize, current_time |-> 0, msg_index |-> 0,
               count |-> 0, wrote |-> 0, rem |-> 0, log |-> <<>>, events_time |-> -1,
               frames |-> 0, log_at |-> <<>>]
    /\ synth' = reset(synth)
    /\ last' = Op("play", 0, 0, 0)
    /\ UNCHANGED <<font, pc, frame, left, right, probe, load>>

\* MidiFileSequencer.stop
Stop ==
    /\ pc = "idle"
    /\ ops < MaxOps
    /\ ops' = ops + 1
    /\ seq' = [seq EXCEPT !.midi_file = 0]
    /\ synth' = reset(synth)
    /\ last' = Op("stop", 0, 0, 0)
    /\ UNCHANGED <<font, pc, frame, left, right, probe, load>>

\* MidiFileSequencer.render(left, right, 0, count), entry; play() has created
\* the attributes render reads
SeqRenderCall(count) ==
    /\ pc = "idle"
    /\ seq.played
    /\ 0 <= count /\ count <= BufferLength
    /\ seq.current_time <= MaxTime
    /\ pc' = "seq_render"
    /\ seq' = [seq EXCEPT !.count = count, !.wrote = 0, !.rem = 0]
    /\ left' = FreshBuffer
    /\ right' = FreshBuffer
    /\ last' = Op("seq_render", 0, 0, 0)
    /\ UNCHANGED <<font, synth, frame, ops, probe, load>>

\* MidiFileSequencer.render, one iteration of "while wrote < count" up to the
\* call self._synthesizer.render(left, right, offset + wrote, rem)
SeqRenderLoop ==
    /\ pc = "seq_render"
    /\ seq.wrote < seq.count
    /\ \E r \in {SequencerStep(font, seq, synth)} :
          \E rem \in {Min(BlockSize - r.seq.block_wrote, seq.count - seq.wrote)} :
             /\ seq' = [r.seq EXCEPT !.rem = rem]
             /\ synth' = r.synth
             /\ frame' = [offset |-> seq.wrote, count |-> rem, wrote |-> 0,
                          start_read |-> r.synth.block_read, caller |-> "seq"]
    /\ pc' = "render"
    /\ UNCHANGED <<font, left, right, ops, last, probe, load>>

\* MidiFileSequencer.render, after Synthesizer.render has returned
SeqRenderResume ==
    /\ pc = "render"
    /\ frame.wrote >= frame.count
    /\ frame.caller = "seq"
    /\ pc' = "seq_render"
    /\ frame' = NoFrame
    /\ synth' = [synth EXCEPT !.blocks = 0]
    /\ seq' = [seq EXCEPT !.block_wrote = seq.block_wrote + seq.rem,
                          !.wrote = seq.wrote + seq.rem,
                          !.frames = seq.frames + seq.rem]
    /\ UNCHANGED <<font, left, right, ops, last, probe, load>>

\* MidiFileSequencer.render, return to the caller, who owns the buffers
SeqRenderReturn ==
    /\ pc = "seq_render"
    /\ seq.wrote >= seq.count
    /\ pc' = "idle"
    /\ seq' = [seq EXCEPT !.count = 0, !.wrote = 0, !.rem = 0]
    /\ left' = FreshBuffer
    /\ right' = FreshBuffer
    /\ UNCHANGED <<font, synth, frame, ops, last, probe, load>>

----------------------------------------------------------------------------
(* A note_on and the note_off that follows it, under observation.          *)

\* Synthesizer.note_on(channel, key, velocity), velocity > 0, hold pedal off
ProbeNoteOn(channel, key, velocity) ==
    /\ pc = "idle"
    /\ probe.phase = "free"
    /\ velocity > 0
    /\ ~synth.channels[channel].hold_pedal
    /\ \E st \in {note_on(font, synth, channel, key, velocity)} :
          /\ synth' = st
          /\ probe' = [phase |-> "on", channel |-> channel, key |-> key,
                       prior |-> ChannelVoiceCount(synth, channel),
                       voices |-> StartedVoices(synth, st), final |-> 0]
    /\ ops' = ops + 1
    /\ last' = NoteOnRecord(channel, key, velocity,
                            NoteOnClasses(channel, key, velocity))
    /\ UNCHANGED <<font, pc, frame, left, right, seq, load>>

\* Synthesizer.note_off(channel, key), next after the observed note_on
ProbeNoteOff ==
    /\ pc = "idle"
    /\ probe.phase = "on"
    /\ synth' = note_off(synth, probe.channel, probe.key)
    /\ probe' = [probe EXCEPT !.phase = "tail"]
    /\ ops' = ops + 1
    /\ last' = Op("note_off", probe.channel, probe.key, 0)
    /\ UNCHANGED <<font, pc, frame, left, right, seq, load>>

----------------------------------------------------------------------------
(* Spec: the voice pool under note-ons, note-offs, controllers and render. *)

Channels == {0, PERCUSSION_CHANNEL}
Keys == {42, 46}
Velocities == {0, 100}

\* no file is being loaded
NoLoad == [kind |-> "none"]

\* Synthesizer(sound_font, settings)
Start(sound_font) ==
    /\ load = NoLoad
    /\ font = sound_font
    /\ synth = SynthesizerNew
    /\ pc = "idle"
    /\ frame = NoFrame
    /\ left = FreshBuffer
    /\ right = FreshBuffer
    /\ ops = 0
    /\ last = NoOp
    /\ probe = NoProbe
    /\ seq = SequencerNew

Init == Start(FontGM)

Next ==
    \/ \E channel \in Channels, key \in Keys, velocity \in Velocities :
          NoteOn(channel, key, velocity)
    \/ \E channel \in Channels, key \in Keys : NoteOff(channel, key)
    \/ \E channel \in Channels, data1 \in {64, 120, 123}, data2 \in {0, 127} :
          ProcessMidiMessage(channel, 176, data1, data2)
    \/ \E immediate \in BOOLEAN : NoteOffAll(immediate)
    \/ Reset
    \/ RenderCall(0, BlockSize)
    \/ RenderLoop
    \/ RenderReturn

Spec == Init /\ [][Next]_vars

----------------------------------------------------------------------------
(* The voice pool: properties of Spec.                                     *)

\* the instrument regions of the fonts
Regions == {RegionPiano, RegionPad, RegionClosedHat, RegionOpenHat}

\* the active voices request_new's first loop would match for a region
ExclusiveMatches(region, channel) ==
    {i \in ActiveVoices :
        /\ synth.voices[i].exclusive_class = region.exclusive_class
        /\ synth.voices[i].channel = channel}

\* C1: the number of active voices is always between 0 and maximum_polyphony,
\* and after a burst of more than maximum_polyphony note-ons that each start
\* regions of exclusive class 0 it is exactly maximum_polyphony.
C1_PolyphonyBound ==
    /\ 0 <= synth.active_voice_count
    /\ synth.active_voice_count <= MaxPolyphony
    /\ (last.op = "note_on" /\ last.burst > MaxPolyphony
          => synth.active_voice_count = MaxPolyphony)

\* a burst of more than maximum_polyphony note-ons has just been played
C1_Witness ==
    /\ last.op = "note_on"
    /\ last.burst > MaxPolyphony
    /\ synth.active_voice_count = MaxPolyphony

\* r is the first active voice of the region's class on the channel, count unchanged
ExclusiveChoice(r, region, channel) ==
    /\ r.count = synth.active_voice_count
    /\ r.index \in ExclusiveMatches(region, channel)
    /\ \A j \in ExclusiveMatches(region, channel) : r.index <= j

\* C2: for a region with a non-zero exclusive class, request_new returns the
\* first active voice of the same class and channel when there is one and leaves
\* active_voice_count alone; after two consecutive note-ons on one channel that
\* share a non-zero exclusive class exactly one active voice of that class is on
\* the channel.
C2_ExclusiveReuse ==
    /\ \A channel \in Channels, region \in Regions :
          region.exclusive_class # 0 /\ ExclusiveMatches(region, channel) # {}
            => ExclusiveChoice(request_new(synth.voices, synth.active_voice_count,
                                           region, channel),
                               region, channel)
    /\ (last.op = "note_on" /\ last.pair
          => \A class \in last.classes \ {0} :
                /\ Cardinality({i \in ActiveVoices :
                                  /\ synth.voices[i].exclusive_class = class
                                  /\ synth.voices[i].channel = last.channel}) = 1
                /\ synth.active_voice_count = last.before)

\* two hi-hat note-ons in a row, the voice they share not being the first of the pool
C2_Witness ==
    /\ last.op = "note_on"
    /\ last.pair
    /\ \E i \in ActiveVoices :
          /\ i > 1
          /\ synth.voices[i].exclusive_class # 0
          /\ synth.voices[i].channel = last.channel
          /\ synth.voices[i].key = last.key
          /\ synth.voices[i].voice_length = 0

\* r is an active voice of minimum priority and, among those, of maximum voice_length
StealChoice(r) ==
    /\ r.count = synth.active_voice_count
    /\ r.index \in ActiveVoices
    /\ \A j \in ActiveVoices :
          /\ VoicePriority(synth.voices[r.index]) <= VoicePriority(synth.voices[j])
          /\ (VoicePriority(synth.voices[r.index]) = VoicePriority(synth.voices[j])
                => synth.voices[j].voice_length <= synth.voices[r.index].voice_length)

\* C3: when every voice is active and the region has no voice of its exclusive
\* class to reuse, request_new returns the active voice of minimum priority, the
\* one with the greatest voice_length among equals, and leaves active_voice_count
\* alone; a killed voice (note_gain below 1.0e-3) has priority 0.
C3_StealLowestPriority ==
    /\ synth.active_voice_count = MaxPolyphony
         => \A channel \in Channels, region \in Regions :
               region.exclusive_class = 0 \/ ExclusiveMatches(region, channel) = {}
                 => StealChoice(request_new(synth.voices, synth.active_voice_count,
                                            region, channel))
    /\ \A i \in ActiveVoices :
          synth.voices[i].note_gain < non_audible => VoicePriority(synth.voices[i]) = 0

\* the pool is full and of two voices of equal, lowest priority the older one,
\* which request_new returns, comes later in the pool
C3_Witness ==
    /\ synth.active_voice_count = MaxPolyphony
    /\ \E i \in ActiveVoices, j \in ActiveVoices :
          /\ i < j
          /\ VoicePriority(synth.voices[i]) = VoicePriority(synth.voices[j])
          /\ synth.voices[j].voice_length > synth.voices[i].voice_length
          /\ request_new(synth.voices, synth.active_voice_count, RegionPiano, 0).index = j

\* channels of a note-off: the two in use and one that does not exist
NoteOffChannels == Channels \cup {CHANNEL_COUNT}

\* the active voices a note-off on (channel, key) ends
Sounding(channel, key) ==
    {i \in ActiveVoices :
        synth.voices[i].channel = channel /\ synth.voices[i].key = key}

\* r is the state after a note-off on (channel, key): the voices that were PLAYING
\* are RELEASE_REQUESTED, and nothing else has changed
NoteOffEffect(r, channel, key) ==
    /\ r = note_off(synth, channel, key)
    /\ r.active_voice_count = synth.active_voice_count
    /\ r.channels = synth.channels
    /\ \A i \in DOMAIN synth.voices :
          r.voices[i] =
             IF i \in Sounding(channel, key) /\ synth.voices[i].voice_state = PLAYING
             THEN [synth.voices[i] EXCEPT !.voice_state = RELEASE_REQUESTED]
             ELSE synth.voices[i]

\* C5: note_on(channel, key, 0) has exactly the effect of note_off(channel, key):
\* every active voice of that channel and key that is PLAYING becomes
\* RELEASE_REQUESTED, the others keep their state, no voice is allocated, stolen
\* or restarted, and no channel state changes.
C5_VelocityZeroIsNoteOff ==
    \A channel \in NoteOffChannels, key \in Keys :
       NoteOffEffect(note_on(font, synth, channel, key, 0), channel, key)

\* a note-on of velocity 0 has just ended a sounding voice
C5_Witness ==
    /\ last.op = "note_on"
    /\ last.velocity = 0
    /\ \E i \in ActiveVoices :
          /\ synth.voices[i].channel = last.channel
          /\ synth.voices[i].key = last.key
          /\ synth.voices[i].voice_state = RELEASE_REQUESTED

\* C5 as stated: after note_on(channel, key, 0) every active voice of that channel
\* and key is RELEASE_REQUESTED
C5_AllMarked ==
    \A channel \in NoteOffChannels, key \in Keys :
       \A i \in Sounding(channel, key) :
          note_on(font, synth, channel, key, 0).voices[i].voice_state = RELEASE_REQUESTED

----------------------------------------------------------------------------
(* SpecPreset: bank select, program change and note-on, for three fonts.   *)

Fonts == {FontGM, FontNoDrums, FontDrums}

InitPreset == \E sound_font \in Fonts : Start(sound_font)

NextPreset ==
    \/ \E channel \in Channels : ProcessMidiMessage(channel, 176, 0, 1)
    \/ \E channel \in Channels, patch \in {1, 5} :
          ProcessMidiMessage(channel, 192, patch, 0)
    \/ \E channel \in Channels : NoteOn(channel, 42, 100)

SpecPreset == InitPreset /\ [][NextPreset]_vars

\* the presets of the font whose id is (bank << 16) | patch
PresetsWithId(bank, patch) ==
    {i \in 1 .. Len(font.presets) :
        /\ font.presets[i].bank_number = bank
        /\ font.presets[i].patch_number = patch}

\* the presets of the font with the smallest id
SmallestPresets ==
    {i \in 1 .. Len(font.presets) :
        \A j \in 1 .. Len(font.presets) :
           font.presets[i].bank_number * 65536 + font.presets[i].patch_number
             <= font.presets[j].bank_number * 65536 + font.presets[j].patch_number}

\* the presets a note-on may use on a channel with this bank and patch
ExpectedPresets(bank, patch) ==
    IF PresetsWithId(bank, patch) # {} THEN PresetsWithId(bank, patch)
    ELSE IF bank < 128 /\ PresetsWithId(0, patch) # {} THEN PresetsWithId(0, patch)
    ELSE IF bank >= 128 /\ PresetsWithId(128, 0) # {} THEN PresetsWithId(128, 0)
    ELSE SmallestPresets

\* C6: a note-on uses the preset with id (bank << 16) | patch if the font has
\* it; otherwise the preset (0 << 16) | patch if bank < 128, or the preset
\* (128 << 16) | 0 if not, when the font has that; otherwise the preset with the
\* smallest id.  On channel 9 with bank 128 and a patch the font lacks it is
\* the preset (128 << 16) | 0 when the font has it.
C6_PresetSelection ==
    last.op = "note_on" /\ last.velocity > 0
      => /\ synth.note_preset
               \in ExpectedPresets(synth.channels[last.channel].bank_number,
                                   synth.channels[last.channel].patch_number)
         /\ (/\ last.channel = PERCUSSION_CHANNEL
              /\ synth.channels[last.channel].bank_number = 128
              /\ PresetsWithId(128, synth.channels[last.channel].patch_number) = {}
              /\ PresetsWithId(128, 0) # {}
              => synth.note_preset \in PresetsWithId(128, 0))

\* a note-on on channel 9, bank 128, with a patch the font lacks: the drum kit
C6_Witness ==
    /\ last.op = "note_on"
    /\ last.channel = PERCUSSION_CHANNEL
    /\ synth.channels[PERCUSSION_CHANNEL].bank_number = 128
    /\ synth.channels[PERCUSSION_CHANNEL].patch_number = 5
    /\ font = FontGM
    /\ font.presets[synth.note_preset].bank_number = 128
    /\ font.presets[synth.note_preset].patch_number = 0

----------------------------------------------------------------------------
(* SpecChannel: the controllers, program change, pitch bend, note-on,      *)
(* reset and render calls of one sample.                                   *)

\* Number of MIDI operations explored in SpecChannel.
MaxControlOps == 2

Controllers == {0, 1, 33, 6, 38, 7, 39, 10, 42, 11, 43, 64, 91, 93, 101, 100, 120, 121, 123}

ControlValue(data1) == IF data1 = 64 THEN 127 ELSE IF data1 \in {100, 101} THEN 0 ELSE 5

NextChannel ==
    \/ /\ ops < MaxControlOps
       /\ \/ \E channel \in Channels, data1 \in Controllers :
                ProcessMidiMessage(channel, 176, data1, ControlValue(data1))
          \/ \E channel \in Channels : ProcessMidiMessage(channel, 192, 5, 0)
          \/ \E channel \in Channels : ProcessMidiMessage(channel, 224, 5, 5)
          \/ \E channel \in Channels : NoteOn(channel, 42, 100)
          \/ Reset
    \/ RenderCall(0, 1)
    \/ RenderLoop
    \/ RenderReturn

SpecChannel == Init /\ [][NextChannel]_vars

\* r is the state after reset_all_controllers on the channel
ResetAllControllersEffect(r, channel) ==
    /\ \A other \in DOMAIN synth.channels :
          other # channel => r.channels[other] = synth.channels[other]
    /\ r.channels[channel].volume = synth.channels[channel].volume
    /\ r.channels[channel].pan = synth.channels[channel].pan
    /\ r.channels[channel].reverb_send = synth.channels[channel].reverb_send
    /\ r.channels[channel].chorus_send = synth.channels[channel].chorus_send
    /\ r.channels[channel].coarse_tune = synth.channels[channel].coarse_tune
    /\ r.channels[channel].fine_tune = synth.channels[channel].fine_tune
    /\ r.channels[channel].bank_number = synth.channels[channel].bank_number
    /\ r.channels[channel].patch_number = synth.channels[channel].patch_number
    /\ r.channels[channel].pitch_bend_range = synth.channels[channel].pitch_bend_range
    /\ r.channels[channel].modulation = 0
    /\ r.channels[channel].expression = 127 * 128
    /\ r.channels[channel].hold_pedal = FALSE
    /\ r.channels[channel].rpn = -1
    /\ r.channels[channel].pitch_bend = 0

\* C7: in every reachable state, controller 0x79 (reset all controllers) on a
\* channel leaves its volume, pan, reverb send, chorus send, coarse tune, fine
\* tune, bank, patch and pitch-bend range unchanged, sets modulation to 0,
\* expression to 127 << 7, the hold pedal off, rpn to -1 and pitch bend to 0,
\* and does not modify any other channel.
C7_ResetAllControllersFrame ==
    \A channel \in Channels :
       ResetAllControllersEffect(
           process_midi_message(font, synth, channel, 176, 121, 0), channel)

\* controller 0x79 has just been processed on a channel whose volume is not the default
C7_Witness ==
    /\ last.op = "process_midi_message"
    /\ last.key = 121
    /\ synth.channels[last.channel].volume # 100 * 128
    /\ synth.channels[last.channel].modulation = 0

\* r is the state after reset
ResetEffect(r) ==
    /\ r.active_voice_count = 0
    /\ r.block_read = BlockSize
    /\ \A i \in DOMAIN r.channels :
          /\ r.channels[i].bank_number = (IF i = PERCUSSION_CHANNEL THEN 128 ELSE 0)
          /\ r.channels[i].patch_number = 0
          /\ r.channels[i].modulation = 0
          /\ r.channels[i].volume = 100 * 128
          /\ r.channels[i].pan = 64 * 128
          /\ r.channels[i].expression = 127 * 128
          /\ r.channels[i].hold_pedal = FALSE
          /\ r.channels[i].reverb_send = 40
          /\ r.channels[i].chorus_send = 0
          /\ r.channels[i].rpn = -1
          /\ r.channels[i].pitch_bend_range = 2 * 128
          /\ r.channels[i].coarse_tune = 0
          /\ r.channels[i].fine_tune = 8192
          /\ r.channels[i].pitch_bend = 0
    /\ reset(r) = r

\* C8: from every reachable state reset() leaves no active voice, every channel
\* with its initial values (bank 0, or 128 on the percussion channel, patch 0,
\* volume 100 << 7, pan 64 << 7, expression 127 << 7, hold pedal off, reverb send
\* 40, chorus send 0, rpn -1, pitch-bend range 2 << 7, coarse tune 0, fine tune
\* 8192, pitch bend 0) and the block cursor exhausted; a second reset() changes
\* nothing.
C8_ResetIsInitial == pc = "idle" => ResetEffect(reset(synth))

\* reset() has just cleared a pool with active voices, the block cursor being exhausted
C8_Witness ==
    /\ last.op = "reset"
    /\ last.before > 0
    /\ synth.active_voice_count = 0
    /\ synth.block_read = BlockSize
    /\ synth.block_voices # {}

----------------------------------------------------------------------------
(* SpecRender: render calls for every part of the buffers.                 *)

NextRender ==
    \/ \E key \in Keys : NoteOn(0, key, 100)
    \/ \E offset \in 0 .. BufferLength, count \in 0 .. BufferLength :
          RenderCall(offset, count)
    \/ RenderLoop
    \/ RenderReturn

SpecRender == Init /\ [][NextRender]_vars

\* the indices of a buffer the current call of render has written
Written(buffer) == {i \in DOMAIN buffer : buffer[i] # Untouched}

\* the value block_read has when the copy of an iteration starts
CopyStart == IF synth.block_read = BlockSize THEN 0 ELSE synth.block_read

\* during a call of render: the indices written are those of the wrote samples
\* from offset on, and _render_block has been called once per block entered
RenderProgress ==
    /\ 0 <= synth.block_read /\ synth.block_read <= BlockSize
    /\ pc = "render"
         => /\ frame.wrote <= frame.count
            /\ Written(left) = {i \in DOMAIN left :
                                  frame.offset <= i /\ i < frame.offset + frame.wrote}
            /\ Written(right) = Written(left)
            /\ synth.blocks = BlocksNeeded(frame.start_read, frame.wrote)

\* an iteration of the loop of render: it calls _render_block only with the
\* block exhausted and copies min(block_size - block_read, count - wrote) samples
RenderStep ==
    pc = "render" /\ pc' = "render"
      => /\ synth'.blocks # synth.blocks => synth.block_read = BlockSize
         /\ frame'.wrote - frame.wrote
               = Min(BlockSize - CopyStart, frame.count - frame.wrote)
         /\ synth'.block_read = CopyStart + (frame'.wrote - frame.wrote)

\* C9: render(left, right, offset, count) writes exactly the indices offset ..
\* offset + count - 1 of both buffers, calls _render_block only when the block is
\* exhausted (block_read = block_size), copies min(block_size - block_read,
\* count - wrote) samples per iteration, and 0 <= block_read <= block_size always.
C9_RenderWritesRange == []RenderProgress /\ [][RenderStep]_vars

\* a call of render that started inside a block and crossed two block
\* boundaries has written its last sample
C9_Witness ==
    /\ pc = "render"
    /\ frame.offset > 0
    /\ frame.start_read \notin {0, BlockSize}
    /\ frame.count > BlockSize
    /\ frame.wrote = frame.count
    /\ synth.blocks = 2

----------------------------------------------------------------------------
(* SpecRoundTrip: some operations, then a note_on immediately followed by  *)
(* its note_off, then render calls only.  The caller keeps calling render, *)
(* and a call of render runs to its return: weak fairness of the call, of  *)
(* the loop iteration and of the return.  MIDI operations are not fair.    *)

\* Synthesizer.render(left, right) of one block, before the observed note_on
\* or after its note_off
RoundTripRender == probe.phase \in {"free", "tail"} /\ RenderCall(0, BlockSize)

NextRoundTrip ==
    \/ /\ probe.phase = "free"
       /\ ops < MaxOps - 2
       /\ \/ \E channel \in Channels, key \in Keys : NoteOn(channel, key, 100)
          \/ \E channel \in Channels, key \in Keys : NoteOff(channel, key)
          \/ \E channel \in Channels, data2 \in {0, 127} :
                ProcessMidiMessage(channel, 176, 64, data2)
    \/ \E channel \in Channels, key \in Keys : ProbeNoteOn(channel, key, 100)
    \/ ProbeNoteOff
    \/ RoundTripRender
    \/ RenderLoop
    \/ RenderReturn

SpecRoundTrip ==
    /\ Init
    /\ [][NextRoundTrip]_vars
    /\ WF_vars(RoundTripRender)
    /\ WF_vars(RenderLoop)
    /\ WF_vars(RenderReturn)

\* C4: with the channel's hold pedal off, after note_on(ch, k, v), v > 0,
\* followed by note_off(ch, k), continued rendering reaches a state where every
\* voice the note_on started has completed its release and left the active
\* voices, and the number of active voices on ch is then at most what it was
\* before the note_on.
C4_ReleaseCompletes ==
    /\ (probe.phase = "tail") ~> (probe.phase = "done")
    /\ [](probe.phase = "done" => probe.final <= probe.prior)

\* the release has completed and fewer voices are active on the channel than
\* before the note_on, which took a voice that was sounding on the channel
C4_Witness ==
    /\ probe.phase = "done"
    /\ probe.final < probe.prior
    /\ probe.prior = MaxPolyphony

\* C4 as stated: once the release has completed the number of active voices on
\* the channel is what it was before the note_on
C4_ReturnsToPrior == probe.phase = "done" => probe.final = probe.prior

----------------------------------------------------------------------------
(* SpecSequencer: play, stop, the sequencer's render and direct render     *)
(* calls of one sample, which shift the synthesizer's block cursor against *)
(* the sequencer's; play, stop and the direct calls stop after MaxOps - 2  *)
(* plays and stops.                                                        *)

NextSequencer ==
    \/ /\ ops < MaxOps - 2
       /\ \/ \E midi_file \in DOMAIN MidiFiles, loop \in BOOLEAN :
                Play(midi_file, loop)
          \/ Stop
    \/ \E count \in {1, BlockSize, BufferLength} : SeqRenderCall(count)
    \/ SeqRenderLoop
    \/ SeqRenderResume
    \/ SeqRenderReturn
    \/ ops < MaxOps - 2 /\ RenderCall(0, 1)
    \/ RenderLoop
    \/ RenderReturn

SpecSequencer == Init /\ [][NextSequencer]_vars

\* the synthesizer, called by the sequencer's render, is about to produce a block
BlockDue ==
    /\ pc = "render"
    /\ frame.caller = "seq"
    /\ frame.wrote < frame.count
    /\ synth.block_read = BlockSize
    /\ seq.midi_file # 0

\* the messages of the file being played whose time is at most time
MessagesUpTo(time) ==
    {j \in 1 .. Len(MidiFiles[seq.midi_file].times) :
        MidiFiles[seq.midi_file].times[j] <= time}

\* the messages were dispatched one by one in the order of the merged list
DispatchedInOrder ==
    /\ Len(seq.log) = seq.msg_index
    /\ \A k \in 1 .. Len(seq.log) : seq.log[k] = k

\* C10: during the sequencer's render after play(), whenever the synthesizer
\* produces a new block, every merged message whose time is at most the
\* current_time that _process_events last compared the message times with since
\* the file was started or restarted (the start time of the sequencer's block,
\* not the current_time already advanced past it) has been dispatched, and the
\* messages are dispatched in the order of the merged list, msg_index advancing
\* by one per message.
C10_EventsBeforeBlock ==
    /\ BlockDue => \A j \in MessagesUpTo(seq.events_time) : j <= seq.msg_index
    /\ seq.midi_file # 0 => DispatchedInOrder

\* a block is produced with the first messages dispatched and a message due
\* within the block still waiting
C10_Witness ==
    /\ BlockDue
    /\ seq.msg_index > 0
    /\ seq.msg_index < Len(MidiFiles[seq.midi_file].messages)
    /\ MidiFiles[seq.midi_file].times[seq.msg_index + 1] <= seq.current_time

\* C10 as stated: whenever the synthesizer produces a new block every merged
\* message whose time is at most current_time has been dispatched, in order
C10_DispatchedUpToCurrentTime ==
    /\ BlockDue => \A j \in MessagesUpTo(seq.current_time) : j <= seq.msg_index
    /\ seq.midi_file # 0 => DispatchedInOrder

\* C11: without loop, every message dispatched since play() was dispatched at a
\* block boundary whose audio time T (the frames rendered since play(), the
\* unit being the sample period) is not before the message's time t and at
\* most one block after it: t <= T and T - t <= block_size.
C11_DispatchWithinOneBlock ==
    (seq.midi_file # 0 /\ ~seq.loop) =>
        /\ Len(seq.log_at) = Len(seq.log)
        /\ \A i \in 1 .. Len(seq.log) :
              /\ seq.log_at[i] % BlockSize = 0
              /\ MidiFiles[seq.midi_file].times[seq.log[i]] <= seq.log_at[i]
              /\ seq.log_at[i] - MidiFiles[seq.midi_file].times[seq.log[i]] <= BlockSize

\* without loop a message has been dispatched after its time, at the next
\* block boundary
C11_Witness ==
    /\ seq.midi_file # 0
    /\ ~seq.loop
    /\ \E i \in 1 .. Len(seq.log) :
          /\ seq.log_at[i] > 0
          /\ MidiFiles[seq.midi_file].times[seq.log[i]] < seq.log_at[i]

\* without loop, every message of the file being played has been dispatched
AllDispatched ==
    /\ seq.midi_file # 0
    /\ ~seq.loop
    /\ seq.msg_index = Len(MidiFiles[seq.midi_file].messages)

\* a step of render, of the sequencer or of the synthesizer, when without loop
\* every message has been dispatched: no message is dispatched, no channel
\* changes, no voice is started, and after a silent block with no active voice
\* the next block is silent
RenderAfterEnd ==
    (AllDispatched /\ ops' = ops) =>
        /\ seq'.msg_index = seq.msg_index
        /\ seq'.log = seq.log
        /\ synth'.channels = synth.channels
        /\ ActiveIds(synth') \subseteq ActiveIds(synth)
        /\ \A i \in 1 .. synth'.active_voice_count :
              \E j \in 1 .. synth.active_voice_count :
                 /\ synth'.voices[i].id = synth.voices[j].id
                 /\ synth'.voices[i].voice_length >= synth.voices[j].voice_length
        /\ (synth.active_voice_count = 0 /\ synth.block_voices = {}) =>
              (synth'.active_voice_count = 0 /\ synth'.block_voices = {})

\* C12: without loop, once _process_events has run at a block boundary at or
\* after the file's length every message has been dispatched; from then on
\* render dispatches no message, changes no channel and starts no voice, the
\* voices still active go on sounding until they end, and once none is active
\* every block is silent.
C12_NothingAfterEnd ==
    /\ [](/\ seq.midi_file # 0
          /\ ~seq.loop
          /\ seq.events_time >= MidiFileLength(MidiFiles[seq.midi_file])
          => AllDispatched)
    /\ [][RenderAfterEnd]_vars

\* a further render after the file's length, every message dispatched, with a
\* voice still active
C12_Witness ==
    /\ AllDispatched
    /\ seq.frames > MidiFileLength(MidiFiles[seq.midi_file])
    /\ pc = "render"
    /\ frame.caller = "seq"
    /\ frame.wrote > 0
    /\ synth.active_voice_count > 0

\* C12 as stated: without loop, once the file's full length has been rendered
\* and all messages are dispatched, no voice is active
C12_SilentAfterLength ==
    (AllDispatched /\ seq.frames >= MidiFileLength(MidiFiles[seq.midi_file])) =>
        synth.active_voice_count = 0

----------------------------------------------------------------------------
(* Loading a MidiFile.  load = [kind, rd, state, track_count, resolution,  *)
(* message_lists, tick_lists, mark_lists, track, events, merged]: state is *)
(* "header", "chunk" (before a track chunk), "event" (in the loop of       *)
(* _read_track), "merge", "done" or "error" (an exception was raised);     *)
(* track is the track being read and events counts the iterations of the   *)
(* loops of _read_track so far.                                            *)

NoTrack == [state |-> "none"]

\* MidiFile(reader) is called on a file of these bytes
MidiLoad(data) ==
    [kind |-> "midi", rd |-> [data |-> data, pos |-> 0], state |-> "header",
     track_count |-> 0, resolution |-> 0, message_lists |-> <<>>,
     tick_lists |-> <<>>, mark_lists |-> <<>>, track |-> NoTrack, events |-> 0,
     merged |-> <<>>]

\* the state in which "for _ in range(self._track_count)" goes on
AfterTracks(track_count, tracks_read) ==
    IF tracks_read < track_count THEN "chunk" ELSE "merge"

\* MidiFile.__init__ up to the first track
LoadHeader ==
    /\ load.kind = "midi"
    /\ load.state = "header"
    /\ \E h \in {MidiHeader(load.rd)} :
          load' = [load EXCEPT !.rd = h.rd,
                               !.state = IF h.error THEN "error"
                                         ELSE AfterTracks(h.track_count, 0),
                               !.track_count = h.track_count,
                               !.resolution = h.resolution]
    /\ UNCHANGED <<font, synth, pc, frame, left, right, ops, last, probe, seq>>

\* MidiFile._read_track up to its loop
LoadTrackChunk ==
    /\ load.kind = "midi"
    /\ load.state = "chunk"
    /\ \E t \in {ReadTrackChunk(read_four_cc(load.rd))} :
          load' = [load EXCEPT !.rd = t.rd,
                               !.state = t.state,
                               !.track = t]
    /\ UNCHANGED <<font, synth, pc, frame, left, right, ops, last, probe, seq>>

\* the load after an iteration of the loop of _read_track that left the track t
LoadAfterEvent(ld, t) ==
    IF t.state = "end"
    THEN [ld EXCEPT !.rd = t.rd,
                    !.state = AfterTracks(ld.track_count, Len(ld.message_lists) + 1),
                    !.message_lists = Append(ld.message_lists, t.messages),
                    !.tick_lists = Append(ld.tick_lists, t.ticks),
                    !.mark_lists = Append(ld.mark_lists, t.marks),
                    !.track = NoTrack,
                    !.events = ld.events + 1]
    ELSE [ld EXCEPT !.rd = t.rd, !.state = t.state, !.track = t,
                    !.events = ld.events + 1]

\* MidiFile._read_track, one iteration of "while True"; the loop is explored
\* for MaxOverrun iterations more than the file has bytes
LoadTrackEvent ==
    /\ load.kind = "midi"
    /\ load.state = "event"
    /\ load.events < Len(load.rd.data) + MaxOverrun
    /\ \E t \in {ReadTrackEvent(load.track)} : load' = LoadAfterEvent(load, t)
    /\ UNCHANGED <<font, synth, pc, frame, left, right, ops, last, probe, seq>>

\* MidiFile._merge_tracks and the end of MidiFile.__init__
LoadMerge ==
    /\ load.kind = "midi"
    /\ load.state = "merge"
    /\ \E m \in {merge_tracks(load.message_lists, load.tick_lists, load.resolution)} :
          load' = [load EXCEPT !.state = IF m.error THEN "error" ELSE "done",
                               !.merged = m.merged]
    /\ UNCHANGED <<font, synth, pc, frame, left, right, ops, last, probe, seq>>

----------------------------------------------------------------------------
(* SpecMidiFile: MidiFile(reader) on files of one track, with or without   *)
(* an End of Track event, and on files of two tracks.                      *)

\* delta time and event
NoteOnEvent == <<0, 144, 42, 100>>
RunningEvent == <<1, 46, 100>>
ProgramEvent == <<0, 192, 5>>
TextEvent == <<0, 255, 1, 0>>
TempoEvent == <<1, 255, 81, 3, 15, 66, 64>>
SysExEvent == <<0, 240, 1, 247>>
EndOfTrackEvent == <<1, 255, 47, 0>>

Events == {NoteOnEvent, RunningEvent, ProgramEvent, TextEvent, TempoEvent, SysExEvent}
MergeEvents == {NoteOnEvent, RunningEvent, ProgramEvent, TempoEvent}

\* the bytes of a sequence of events
RECURSIVE Flatten(_)
Flatten(events) ==
    IF events = <<>> THEN <<>> ELSE Head(events) \o Flatten(Tail(events))

\* a track chunk: its type, the length of its data and the data
TrackChunk(bytes) == MTrk \o <<0, 0, 0, Len(bytes)>> \o bytes

\* the header chunk: division is the two bytes of the resolution
HeaderChunk(format, track_count, division) ==
    MThd \o <<0, 0, 0, 6>> \o <<0, format>> \o <<0, track_count>> \o division

\* 2 ticks per quarter note, -2 (an SMPTE division), and 0
Divisions == {<<0, 2>>, <<255, 254>>, <<0, 0>>}

\* the data of the tracks of at most n events of a set, ended by End of Track
\* or not
TrackData(events, n, ended) ==
    {Flatten(es) \o (IF e THEN EndOfTrackEvent ELSE <<>>) :
        es \in ByteSeqs(events, n), e \in ended}

OneTrackFiles ==
    {HeaderChunk(0, 1, division) \o TrackChunk(data) :
        division \in Divisions, data \in TrackData(Events, MaxTrackEvents, BOOLEAN)}

TwoTrackFiles ==
    {HeaderChunk(1, 2, division) \o TrackChunk(a) \o TrackChunk(b) :
        division \in Divisions,
        a \in TrackData(MergeEvents, MaxTrackEvents - 1, {TRUE}),
        b \in TrackData(MergeEvents, MaxTrackEvents - 1, {TRUE})}

\* an empty file, a wrong header, a wrong track type, and a track with events
\* after its End of Track
OtherFiles ==
    {<<>>,
     <<77, 84, 104, 100, 0, 0, 0, 5>>,
     HeaderChunk(2, 1, <<0, 2>>),
     HeaderChunk(0, 1, <<0, 2>>) \o MThd,
     HeaderChunk(1, 2, <<0, 2>>)
        \o MTrk \o <<0, 0, 0, 12>> \o NoteOnEvent \o EndOfTrackEvent \o NoteOnEvent
        \o TrackChunk(NoteOnEvent \o EndOfTrackEvent)}

MidiInputs == OneTrackFiles \cup TwoTrackFiles \cup OtherFiles

\* the synthesizer is idle while the file ld is loaded
StartLoading(ld) ==
    /\ load = ld
    /\ font = FontGM
    /\ synth = SynthesizerNew
    /\ pc = "idle"
    /\ frame = NoFrame
    /\ left = FreshBuffer
    /\ right = FreshBuffer
    /\ ops = 0
    /\ last = NoOp
    /\ probe = NoProbe
    /\ seq = SequencerNew

InitMidiFile == \E data \in MidiInputs : StartLoading(MidiLoad(data))

NextMidiFile ==
    \/ LoadHeader
    \/ LoadTrackChunk
    \/ LoadTrackEvent
    \/ LoadMerge

SpecMidiFile == InitMidiFile /\ [][NextMidiFile]_vars

\* C13: loading a MIDI file ends after consuming at most the bytes supplied;
\* in particular the loops of _read_track, each iteration of which reads a
\* delta time and an event, run at most one iteration per byte of the file.
C13_LoadBounded ==
    load.kind = "midi" => load.events <= Len(load.rd.data)

\* the data of a track chunk has ended without an End of Track event and
\* _read_track is still in its loop
C13_Witness ==
    /\ load.kind = "midi"
    /\ load.state = "event"
    /\ load.events > 0
    /\ load.rd.pos >= Len(load.rd.data)

\* the messages and marks of the tracks read so far and of the one being read
TracksRead ==
    IF load.state = "event"
    THEN [messages |-> Append(load.message_lists, load.track.messages),
          marks |-> Append(load.mark_lists, load.track.marks)]
    ELSE [messages |-> load.message_lists, marks |-> load.mark_lists]

\* message i of track tr was read through running status after a channel
\* status byte
ReadByRunningStatus(tr, i) == TracksRead.marks[tr][i] >= 128

\* C14: a message read through running status has the channel and the command
\* of the most recent status byte in 0x80 .. 0xEF of its track, also when a meta
\* or SysEx event lies in between, the byte in status position is its data1,
\* and its data2 is a further byte unless that status is 0xC0 or 0xD0.
C14_RunningStatus ==
    load.kind = "midi" =>
        \A tr \in 1 .. Len(TracksRead.messages) :
           \A i \in 1 .. Len(TracksRead.messages[tr]) :
              ReadByRunningStatus(tr, i) =>
                 /\ TracksRead.messages[tr][i].channel = TracksRead.marks[tr][i] % 16
                 /\ TracksRead.messages[tr][i].command
                      = TracksRead.marks[tr][i] - (TracksRead.marks[tr][i] % 16)
                 /\ TracksRead.messages[tr][i].command \in {192, 208} =>
                      TracksRead.messages[tr][i].data2 = 0

\* a message was read through running status right after a note-on and a
\* meta event
C14_Witness ==
    /\ load.kind = "midi"
    /\ \E tr \in 1 .. Len(TracksRead.messages) :
          \E i \in 2 .. Len(TracksRead.messages[tr]) :
             /\ TracksRead.marks[tr][i] = 144
             /\ TracksRead.marks[tr][i - 1] = -1
             /\ TracksRead.messages[tr][i - 1].command = 144
             /\ TracksRead.messages[tr][i].command # 144

\* the messages of the tracks: <<track, index>>
TrackMessages ==
    UNION {{<<tr, i>> : i \in 1 .. Len(load.message_lists[tr])} :
              tr \in 1 .. Len(load.message_lists)}

TrackMessage(p) == load.message_lists[p[1]][p[2]]
TrackTick(p) == load.tick_lists[p[1]][p[2]]

\* p is merged before q: by tick, then by track, then by the order in the track
MergedBefore(p, q) ==
    \/ TrackTick(p) < TrackTick(q)
    \/ TrackTick(p) = TrackTick(q) /\ p[1] < q[1]
    \/ TrackTick(p) = TrackTick(q) /\ p[1] = q[1] /\ p[2] < q[2]

\* the messages before p, tempo messages included
Passed(p) == {q \in TrackMessages : MergedBefore(q, p)}

\* the tempo messages passed before p
TemposPassed(p) ==
    {q \in Passed(p) : MessageType(TrackMessage(q)) = TEMPO_CHANGE}

\* microseconds per quarter note when p is reached: 60000000 / 120 or the value
\* of the last tempo message passed
TempoBefore(p) ==
    IF TemposPassed(p) = {} THEN 500000
    ELSE MessageTempoValue(TrackMessage(
             CHOOSE q \in TemposPassed(p) :
                \A r \in TemposPassed(p) : r = q \/ MergedBefore(r, q)))

\* the tick of the message before p, 0 for the first
TickBefore(p) ==
    IF Passed(p) = {} THEN 0
    ELSE TrackTick(CHOOSE q \in Passed(p) :
                      \A r \in Passed(p) : r = q \/ MergedBefore(r, q))

\* (next_tick - current_tick) * 60 / (resolution * tempo) at p, in the unit of
\* the merged times
TimeStep(p) ==
    ((TrackTick(p) - TickBefore(p)) * (TempoBefore(p) \div TimeUnit))
       * (IF load.resolution < 0 THEN -1 ELSE 1)

\* the sum of f over a set
RECURSIVE SumOver(_, _)
SumOver(S, f) ==
    IF S = {} THEN 0
    ELSE f[CHOOSE x \in S : TRUE]
           + SumOver(S \ {CHOOSE x \in S : TRUE}, f)

\* the time accumulated up to and including p
TimeUpTo(p) ==
    SumOver(Passed(p) \cup {p}, [q \in Passed(p) \cup {p} |-> TimeStep(q)])

\* the merged stream is what the claim says
MergedStreamOk ==
    /\ {<<load.merged[k].track, load.merged[k].index>> : k \in 1 .. Len(load.merged)}
         = {p \in TrackMessages : MessageType(TrackMessage(p)) # TEMPO_CHANGE}
    /\ \A k \in 1 .. Len(load.merged) :
          /\ load.merged[k].message
               = TrackMessage(<<load.merged[k].track, load.merged[k].index>>)
          /\ MessageType(load.merged[k].message) # TEMPO_CHANGE
          /\ load.merged[k].time
               = TimeUpTo(<<load.merged[k].track, load.merged[k].index>>)
    /\ \A k \in 1 .. Len(load.merged), l \in 1 .. Len(load.merged) :
          k < l =>
             /\ MergedBefore(<<load.merged[k].track, load.merged[k].index>>,
                             <<load.merged[l].track, load.merged[l].index>>)
             /\ load.merged[k].time <= load.merged[l].time

\* C16: the merged stream holds every message of every track that is no tempo
\* message exactly once and no tempo message, ordered by tick, then by track
\* index, then by the order in the track, and its times are non-decreasing, each
\* the sum of (next_tick - current_tick) * 60 / (resolution * tempo) over the
\* messages up to it, tempo being 120 until changed by a tempo message passed.
C16_MergedStream ==
    (load.kind = "midi" /\ load.state = "done") => MergedStreamOk

\* two tracks with a tempo message have been merged
C16_Witness ==
    /\ load.kind = "midi"
    /\ load.state = "done"
    /\ Len(load.message_lists) = 2
    /\ Len(load.merged) >= 3
    /\ \E p \in TrackMessages : MessageType(TrackMessage(p)) = TEMPO_CHANGE
    /\ load.merged[Len(load.merged)].time # 0

\* the same for the files whose resolution is positive
MergedStreamPositive ==
    (load.kind = "midi" /\ load.state = "done" /\ load.resolution > 0)
        => MergedStreamOk

----------------------------------------------------------------------------
(* SpecVlq: read_int_variable_length on every byte sequence of at most     *)
(* MaxVlqLength bytes over VlqBytes.                                       *)

MaxVlqLength == 5
VlqBytes == {0, 1, 127, 128, 129, 255}

InitVlq ==
    \E data \in ByteSeqs(VlqBytes, MaxVlqLength) :
       StartLoading([kind |-> "vlq", rd |-> [data |-> data, pos |-> 0],
                     state |-> "start", value |-> 0])

\* _BinaryReaderEx.read_int_variable_length(reader)
ReadIntVariableLength ==
    /\ load.kind = "vlq"
    /\ load.state = "start"
    /\ \E r \in {read_int_variable_length(load.rd)} :
          load' = [load EXCEPT !.rd = r.rd,
                               !.state = IF r.error THEN "error" ELSE "done",
                               !.value = r.value]
    /\ UNCHANGED <<font, synth, pc, frame, left, right, ops, last, probe, seq>>

SpecVlq == InitVlq /\ [][ReadIntVariableLength]_vars

\* the positions among the first four bytes that hold a byte without
\* continuation bit
VlqEnds(data) == {k \in 1 .. Min(4, Len(data)) : data[k] < 128}

\* the first of them
VlqEnd(data) == CHOOSE k \in VlqEnds(data) : \A j \in VlqEnds(data) : k <= j

\* the payload bits of bytes 1 .. k, most significant group first
RECURSIVE VlqValue(_, _)
VlqValue(data, k) ==
    IF k = 0 THEN 0 ELSE 128 * VlqValue(data, k - 1) + (data[k] % 128)

\* C15: read_int_variable_length raises exactly when the first four bytes all
\* have the continuation bit set; when one of the first four bytes has no
\* continuation bit it consumes the bytes up to and including the first such
\* byte and returns their payload bits, seven per byte, most significant group
\* first, a value in [0, 2^28).
C15_VariableLength ==
    (load.kind = "vlq" /\ load.state # "start") =>
        /\ load.state = "error" <=>
              /\ Len(load.rd.data) >= 4
              /\ \A k \in 1 .. 4 : load.rd.data[k] >= 128
        /\ VlqEnds(load.rd.data) # {} =>
              /\ load.state = "done"
              /\ load.rd.pos = VlqEnd(load.rd.data)
              /\ load.value = VlqValue(load.rd.data, VlqEnd(load.rd.data))
              /\ 0 <= load.value /\ load.value < 2 ^ 28

\* a quantity of four bytes with every payload bit set has been decoded
C15_Witness ==
    /\ load.kind = "vlq"
    /\ load.state = "done"
    /\ load.rd.pos = 4
    /\ load.value = 2 ^ 28 - 1

----------------------------------------------------------------------------
(* SpecRpn: the registered-parameter controllers 0x65 and 0x64 and the     *)
(* data-entry controllers 0x06 and 0x26 on the channels of one synthesizer.*)

\* Number of controller messages explored in SpecRpn.
MaxRpnOps == 3

RpnControllers == {101, 100, 6, 38}
RpnValues == {0, 1, 2, 70}

NextRpn ==
    /\ ops < MaxRpnOps
    /\ \E channel \in Channels, data1 \in RpnControllers, data2 \in RpnValues :
          ProcessMidiMessage(channel, 176, data1, data2)

SpecRpn == Init /\ [][NextRpn]_vars

\* st after controller data1 with value data2 on the channel
ControlChange(st, channel, data1, data2) ==
    process_midi_message(font, st, channel, 176, data1, data2)

\* st after CC 0x65 = 0 and CC 0x64 = n on the channel
SelectRpn(st, channel, n) ==
    ControlChange(ControlChange(st, channel, 101, 0), channel, 100, n)

\* r is the channel c after a data entry, coarse or fine, with rpn = n
DataEntryEffect(r, c, n, coarse, value) ==
    /\ r.pitch_bend_range =
          IF n # 0 THEN c.pitch_bend_range
          ELSE IF coarse THEN SetCoarse(c.pitch_bend_range, value)
          ELSE SetFine(c.pitch_bend_range, value)
    /\ r.fine_tune =
          IF n # 1 THEN c.fine_tune
          ELSE IF coarse THEN SetCoarse(c.fine_tune, value)
          ELSE SetFine(c.fine_tune, value)
    /\ r.coarse_tune = IF n = 2 /\ coarse THEN value - 64 ELSE c.coarse_tune

\* C20: in every reachable state and on every channel, CC 0x65 with value v
\* sets the high 7 bits of rpn to v and keeps the low 7, CC 0x64 with value v
\* sets the low 7 bits of rpn to v and keeps the high ones; after CC 0x65 = 0
\* and CC 0x64 = n with n in {0, 1, 2} rpn is n, and a following CC 0x06 with
\* value v sets the high 7 bits of the pitch-bend range (n = 0) or of the fine
\* tune (n = 1), or sets the coarse tune to v - 64 (n = 2), and a following
\* CC 0x26 sets the low 7 bits of the pitch-bend range (n = 0) or of the fine
\* tune (n = 1).
C20_RpnDataEntry ==
    \A channel \in Channels :
       /\ \A value \in RpnValues :
             /\ ControlChange(synth, channel, 101, value).channels[channel].rpn
                   = SetCoarse(synth.channels[channel].rpn, value)
             /\ ControlChange(synth, channel, 100, value).channels[channel].rpn
                   = SetFine(synth.channels[channel].rpn, value)
       /\ \A n \in {0, 1, 2} :
             /\ SelectRpn(synth, channel, n).channels[channel].rpn = n
             /\ \A value \in RpnValues :
                   /\ DataEntryEffect(
                         ControlChange(SelectRpn(synth, channel, n),
                                       channel, 6, value).channels[channel],
                         synth.channels[channel], n, TRUE, value)
                   /\ DataEntryEffect(
                         ControlChange(SelectRpn(synth, channel, n),
                                       channel, 38, value).channels[channel],
                         synth.channels[channel], n, FALSE, value)

\* CC 0x65 = 0, CC 0x64 = 0 and CC 0x06 = 70 have been processed on a channel
\* in this order from the initial state
C20_Witness ==
    /\ ops = 3
    /\ last.op = "process_midi_message"
    /\ last.key = 6
    /\ last.velocity = 70
    /\ synth.channels[last.channel].rpn = 127
    /\ synth.channels[last.channel].vrpn = 0

\* the data entries act as C20 says in the states where rpn is 0, 1 or 2
DataEntryWhenSelected ==
    \A channel \in Channels, value \in RpnValues :
       synth.channels[channel].rpn \in {0, 1, 2} =>
          /\ DataEntryEffect(
                ControlChange(synth, channel, 6, value).channels[channel],
                synth.channels[channel], synth.channels[channel].rpn, TRUE, value)
          /\ DataEntryEffect(
                ControlChange(synth, channel, 38, value).channels[channel],
                synth.channels[channel], synth.channels[channel].rpn, FALSE, value)

\* rpn is never 0, 1 or 2
RpnNeverSelected ==
    \A channel \in Channels : synth.channels[channel].rpn \notin {0, 1, 2}

----------------------------------------------------------------------------
(* SoundFont: the generators, the zones and the regions of the "pdta"      *)
(* list.  A generator is [generator_type, value], a zone is the sequence   *)
(* of its generators, a region is [gs, id]: the 61 generator values and    *)
(* the index of its sample (instrument region) or instrument (preset       *)
(* region).                                                                *)

INSTRUMENT == 41
KEY_RANGE == 43
VELOCITY_RANGE == 44
SAMPLE_ID == 53
SAMPLE_MODES == 54
UNUSED_END == 60

\* x >> n
Shr(x, n) == x \div (2 ^ n)

\* int.from_bytes(bytes, byteorder="little", signed=False)
RECURSIVE FromBytesLittle(_)
FromBytesLittle(bytes) ==
    IF Len(bytes) = 0 THEN 0 ELSE bytes[1] + 256 * FromBytesLittle(Tail(bytes))

\* int.from_bytes(bytes, byteorder="little", signed=True)
FromBytesLittleSigned(bytes) ==
    IF Len(bytes) > 0 /\ bytes[Len(bytes)] >= 128
    THEN FromBytesLittle(bytes) - 256 ^ Len(bytes)
    ELSE FromBytesLittle(bytes)

\* _BinaryReaderEx.read_uint16 / read_int16
ReadUint16From(r) == [value |-> FromBytesLittle(r.bytes), rd |-> r.rd]
ReadInt16From(r) == [value |-> FromBytesLittleSigned(r.bytes), rd |-> r.rd]
read_uint16(rd) == ReadUint16From(ReaderRead(rd, 2))
read_int16(rd) == ReadInt16From(ReaderRead(rd, 2))

\* _Generator(reader): _GeneratorType(n) raises for n outside 0 .. 60, and
\* the value is not read then
GeneratorOf(t, v) ==
    IF t.value > UNUSED_END
    THEN [generator_type |-> t.value, value |-> 0, rd |-> t.rd, error |-> TRUE]
    ELSE [generator_type |-> t.value, value |-> v.value, rd |-> v.rd, error |-> FALSE]

GeneratorTyped(t) == GeneratorOf(t, read_int16(t.rd))
GeneratorNew(rd) == GeneratorTyped(read_uint16(rd))

\* _Generator.read_from_chunk, the loop with count generators left to read and
\* then the terminator
RECURSIVE ReadGeneratorsFrom(_, _, _)
ReadGeneratorsNext(g, count, generators) ==
    IF g.error THEN [generators |-> generators, rd |-> g.rd, error |-> TRUE]
    ELSE IF count <= 0 THEN [generators |-> generators, rd |-> g.rd, error |-> FALSE]
    ELSE ReadGeneratorsFrom(g.rd, count - 1,
             Append(generators, [generator_type |-> g.generator_type, value |-> g.value]))

ReadGeneratorsFrom(rd, count, generators) ==
    TheOne({ReadGeneratorsNext(g, count, generators) : g \in {GeneratorNew(rd)}})

\* _Generator.read_from_chunk(reader, size)
GeneratorReadFromChunk(rd, size) ==
    IF size % 4 # 0 THEN [generators |-> <<>>, rd |-> rd, error |-> TRUE]
    ELSE ReadGeneratorsFrom(rd, size \div 4 - 1, <<>>)

\* _ZoneInfo.read_from_chunk and _Zone.create: bag[i] is the generator index
\* of the i-th zone info, so the i-th zone has bag[i + 1] - bag[i] generators
\* from generators[bag[i]] on (indices from 0); an index past the list raises
ZoneCount(bag, i) == bag[i + 1] - bag[i]

ZoneGenerators(bag, generators, i) ==
    IF ZoneCount(bag, i) <= 0 THEN <<>>
    ELSE SubSeq(generators, bag[i] + 1, bag[i + 1])

ZoneCreate(bag, generators) ==
    IF Len(bag) <= 1 THEN [zones |-> <<>>, error |-> TRUE]
    ELSE IF \E i \in 1 .. Len(bag) - 1 :
               ZoneCount(bag, i) > 0 /\ bag[i + 1] > Len(generators)
    THEN [zones |-> <<>>, error |-> TRUE]
    ELSE [zones |-> [i \in 1 .. Len(bag) - 1 |-> ZoneGenerators(bag, generators, i)],
          error |-> FALSE]

\* InstrumentRegion.__init__, the initial values of _gs
InstrumentRegionDefaults ==
    [g \in 0 .. UNUSED_END |->
        CASE g = 8 -> 13500
          [] g \in {21, 23, 25, 26, 27, 28, 30, 33, 34, 35, 36, 38} -> -12000
          [] g \in {KEY_RANGE, VELOCITY_RANGE} -> 32512
          [] g \in {46, 47, 58} -> -1
          [] g = 56 -> 100
          [] OTHER -> 0]

\* PresetRegion.__init__, the initial values of _gs
PresetRegionDefaults ==
    [g \in 0 .. UNUSED_END |->
        IF g \in {KEY_RANGE, VELOCITY_RANGE} THEN 32512 ELSE 0]

\* _set_parameter
set_parameter(gs, generator) ==
    IF 0 <= generator.generator_type /\ generator.generator_type < 61
    THEN [gs EXCEPT ![generator.generator_type] = generator.value]
    ELSE gs

\* for generator in zone.generators: self._set_parameter(generator)
RECURSIVE SetParameters(_, _)
SetParameters(gs, generators) ==
    IF generators = <<>> THEN gs
    ELSE SetParameters(set_parameter(gs, Head(generators)), Tail(generators))

\* a region that accepts every id
RegionUnchecked(gs, id_type, count) == [gs |-> gs, id |-> gs[id_type], error |-> FALSE]

\* the end of InstrumentRegion.__init__ and of PresetRegion.__init__: the id
\* must index the list of count samples or instruments
RegionChecked(gs, id_type, count) ==
    [gs |-> gs, id |-> gs[id_type],
     error |-> ~(0 <= gs[id_type] /\ gs[id_type] < count)]

\* InstrumentRegion(instrument, global_zone, local_zone, samples) and
\* PresetRegion(preset, global_zone, local_zone, instruments)
RegionNew(defaults, global_zone, local_zone, id_type, count) ==
    RegionChecked(SetParameters(SetParameters(defaults, global_zone), local_zone),
                  id_type, count)

\* is the first zone of the span the global zone?
IsGlobalZone(zone, id_type) ==
    Len(zone) = 0 \/ zone[Len(zone)].generator_type # id_type

\* InstrumentRegion._create / PresetRegion._create on a span of zones; an
\* empty span raises at zones[0]
RegionsOf(defaults, global_zone, locals, id_type, count) ==
    [i \in 1 .. Len(locals) |->
        RegionNew(defaults, global_zone, locals[i], id_type, count)]

RegionsResult(regions) ==
    [regions |-> [i \in 1 .. Len(regions) |-> [gs |-> regions[i].gs, id |-> regions[i].id]],
     error |-> \E i \in 1 .. Len(regions) : regions[i].error]

RegionCreate(defaults, zones, id_type, count) ==
    IF Len(zones) = 0 THEN [regions |-> <<>>, error |-> TRUE]
    ELSE IF IsGlobalZone(zones[1], id_type)
         THEN RegionsResult(RegionsOf(defaults, zones[1], Tail(zones), id_type, count))
         ELSE RegionsResult(RegionsOf(defaults, <<>>, zones, id_type, count))

\* zones[start : start + zone_count]
ZoneSpan(zones, start, zone_count) ==
    IF start >= Len(zones) THEN <<>>
    ELSE SubSeq(zones, start + 1, Min(start + zone_count, Len(zones)))

\* Instrument.__init__ / Preset.__init__ for the i-th info: infos[i] is its
\* zone_start_index and infos[i + 1] - 1 its zone_end_index
InstrumentNew(defaults, infos, i, zones, id_type, count) ==
    IF infos[i + 1] - 1 - infos[i] + 1 <= 0 THEN [regions |-> <<>>, error |-> TRUE]
    ELSE RegionCreate(defaults, ZoneSpan(zones, infos[i], infos[i + 1] - infos[i]),
                      id_type, count)

\* InstrumentRegion.key_range_start .. velocity_range_end, and the same
\* getters of PresetRegion
key_range_start(region) == BitAnd(region.gs[KEY_RANGE], 255)
key_range_end(region) == BitAnd(Shr(region.gs[KEY_RANGE], 8), 255)
velocity_range_start(region) == BitAnd(region.gs[VELOCITY_RANGE], 255)
velocity_range_end(region) == BitAnd(Shr(region.gs[VELOCITY_RANGE], 8), 255)

\* LoopMode(value): a ValueError unless value is the value of a member
LoopMode(value) ==
    IF value \in {NO_LOOP, CONTINUOUS, LOOP_UNTIL_NOTE_OFF}
    THEN [value |-> value, error |-> FALSE]
    ELSE [value |-> value, error |-> TRUE]

\* InstrumentRegion.sample_modes
sample_modes(region) ==
    IF region.gs[SAMPLE_MODES] # 2 THEN LoopMode(region.gs[SAMPLE_MODES])
    ELSE [value |-> NO_LOOP, error |-> FALSE]

----------------------------------------------------------------------------
(* Loading the "pdta" list: _SoundFontParameters.__init__ once the chunks  *)
(* are located.  pgen and igen are the bytes of the generator chunks;      *)
(* pbag and ibag are the generator indices of the zone infos, phdr and     *)
(* inst the zone start indices of the preset and instrument infos, as read *)
(* by read_uint16; sample_count is the number of sample headers without    *)
(* the terminator.                                                         *)

NoGetter == [instrument |-> 0, region |-> 0, value |-> 0, error |-> FALSE]

PdtaLoad(pgen, pbag, phdr, igen, ibag, inst, sample_count) ==
    [kind |-> "pdta", state |-> "pgen",
     pgen |-> [data |-> pgen, pos |-> 0], pbag |-> pbag, phdr |-> phdr,
     igen |-> [data |-> igen, pos |-> 0], ibag |-> ibag, inst |-> inst,
     sample_count |-> sample_count,
     preset_generators |-> <<>>, instrument_generators |-> <<>>,
     instrument_zones |-> <<>>, instruments |-> <<>>,
     preset_zones |-> <<>>, presets |-> <<>>,
     getter |-> NoGetter]

\* case "pgen": preset_generators = _Generator.read_from_chunk(reader, size)
LoadPresetGenerators ==
    /\ load.kind = "pdta"
    /\ load.state = "pgen"
    /\ \E r \in {GeneratorReadFromChunk(load.pgen, Len(load.pgen.data))} :
          load' = [load EXCEPT !.pgen = r.rd,
                               !.preset_generators = r.generators,
                               !.state = IF r.error THEN "error" ELSE "igen"]
    /\ UNCHANGED <<font, synth, pc, frame, left, right, ops, last, probe, seq>>

\* case "igen": instrument_generators = _Generator.read_from_chunk(reader, size)
LoadInstrumentGenerators ==
    /\ load.kind = "pdta"
    /\ load.state = "igen"
    /\ \E r \in {GeneratorReadFromChunk(load.igen, Len(load.igen.data))} :
          load' = [load EXCEPT !.igen = r.rd,
                               !.instrument_generators = r.generators,
                               !.state = IF r.error THEN "error" ELSE "instrument_zones"]
    /\ UNCHANGED <<font, synth, pc, frame, left, right, ops, last, probe, seq>>

\* instrument_zones = _Zone.create(instrument_bag, instrument_generators), and
\* the check at the start of Instrument._create
LoadInstrumentZones ==
    /\ load.kind = "pdta"
    /\ load.state = "instrument_zones"
    /\ \E r \in {ZoneCreate(load.ibag, load.instrument_generators)} :
          load' = [load EXCEPT !.instrument_zones = r.zones,
                               !.state = IF r.error \/ Len(load.inst) <= 1
                                         THEN "error" ELSE "instruments"]
    /\ UNCHANGED <<font, synth, pc, frame, left, right, ops, last, probe, seq>>

\* Instrument._create, one iteration of its loop:
\* instruments.append(Instrument(infos[i], zones, samples))
LoadInstrument ==
    /\ load.kind = "pdta"
    /\ load.state = "instruments"
    /\ \E r \in {InstrumentNew(InstrumentRegionDefaults, load.inst,
                               Len(load.instruments) + 1, load.instrument_zones,
                               SAMPLE_ID, load.sample_count)} :
          load' = [load EXCEPT
                      !.instruments = IF r.error THEN @ ELSE Append(@, r.regions),
                      !.state = IF r.error THEN "error"
                                ELSE IF Len(load.instruments) + 1 = Len(load.inst) - 1
                                     THEN "preset_zones" ELSE "instruments"]
    /\ UNCHANGED <<font, synth, pc, frame, left, right, ops, last, probe, seq>>

\* preset_zones = _Zone.create(preset_bag, preset_generators), and the check
\* at the start of Preset._create
LoadPresetZones ==
    /\ load.kind = "pdta"
    /\ load.state = "preset_zones"
    /\ \E r \in {ZoneCreate(load.pbag, load.preset_generators)} :
          load' = [load EXCEPT !.preset_zones = r.zones,
                               !.state = IF r.error \/ Len(load.phdr) <= 1
                                         THEN "error" ELSE "presets"]
    /\ UNCHANGED <<font, synth, pc, frame, left, right, ops, last, probe, seq>>

\* Preset._create, one iteration of its loop:
\* presets.append(Preset(infos[i], zones, instruments))
LoadPreset ==
    /\ load.kind = "pdta"
    /\ load.state = "presets"
    /\ \E r \in {InstrumentNew(PresetRegionDefaults, load.phdr,
                               Len(load.presets) + 1, load.preset_zones,
                               INSTRUMENT, Len(load.instruments))} :
          load' = [load EXCEPT
                      !.presets = IF r.error THEN @ ELSE Append(@, r.regions),
                      !.state = IF r.error THEN "error"
                                ELSE IF Len(load.presets) + 1 = Len(load.phdr) - 1
                                     THEN "done" ELSE "presets"]
    /\ UNCHANGED <<font, synth, pc, frame, left, right, ops, last, probe, seq>>

\* instrument.regions[j].sample_modes on a region of the loaded SoundFont
GetSampleModes ==
    /\ load.kind = "pdta"
    /\ load.state = "done"
    /\ \E i \in 1 .. Len(load.instruments) :
       \E j \in 1 .. Len(load.instruments[i]) :
       \E r \in {sample_modes(load.instruments[i][j])} :
          load' = [load EXCEPT !.state = "read",
                               !.getter = [instrument |-> i, region |-> j,
                                           value |-> r.value, error |-> r.error]]
    /\ UNCHANGED <<font, synth, pc, frame, left, right, ops, last, probe, seq>>

----------------------------------------------------------------------------
(* SpecSoundFont: the "pdta" lists of one or two instruments and one       *)
(* preset whose zones hold at most MaxGenerators generators.               *)

MaxGenerators == 3

\* generators as the four bytes of the file: type and value, little endian
KeyRangeInverted == <<43, 0, 80, 10>>
KeyRangeHigh == <<43, 0, 0, 255>>
VelocityRangeInverted == <<44, 0, 100, 20>>
VelocityRangeHigh == <<44, 0, 0, 200>>
SampleId0 == <<53, 0, 0, 0>>
SampleId5 == <<53, 0, 5, 0>>
SampleIdNegative == <<53, 0, 255, 255>>
Instrument0 == <<41, 0, 0, 0>>
Instrument1 == <<41, 0, 1, 0>>
InstrumentNegative == <<41, 0, 0, 128>>
UnknownGenerator == <<61, 0, 0, 0>>
Terminator == <<0, 0, 0, 0>>

SampleModes(lo, hi) == <<54, 0, lo, hi>>

\* the values 0, 1, 2, 3, 4, 259, 32767, -32768 and -1 of SAMPLE_MODES
SampleModesBytes ==
    {<<0, 0>>, <<1, 0>>, <<2, 0>>, <<3, 0>>, <<4, 0>>, <<3, 1>>,
     <<255, 127>>, <<0, 128>>, <<255, 255>>}

InstrumentGenerators ==
    {KeyRangeInverted, KeyRangeHigh, VelocityRangeInverted,
     SampleId0, SampleId5, SampleIdNegative, UnknownGenerator}

PresetGenerators ==
    {KeyRangeInverted, VelocityRangeHigh,
     Instrument0, Instrument1, InstrumentNegative, UnknownGenerator}

\* a generator chunk: the generators and the terminator
GeneratorChunk(generators) == Flatten(generators) \o Terminator

\* the zone infos of n generators: one zone, or two zones split at k
Bags(n) == {<<0, n>>} \cup {<<0, k, n>> : k \in 0 .. n}

\* the infos of one instrument or preset that has all the zones
OneInfo(bag) == <<0, Len(bag) - 1>>

\* one preset with one zone for instrument 0
PlainPreset == GeneratorChunk(<<Instrument0>>)

\* one instrument with one zone for sample 0
PlainInstrument == GeneratorChunk(<<SampleId0>>)

\* the instrument side varies
InstrumentFonts ==
    UNION {{PdtaLoad(PlainPreset, <<0, 1>>, <<0, 1>>,
                     GeneratorChunk(gs), bag, OneInfo(bag), 2) : bag \in Bags(Len(gs))}
           : gs \in ByteSeqs(InstrumentGenerators, MaxGenerators)}

\* the preset side varies
PresetFonts ==
    UNION {{PdtaLoad(GeneratorChunk(gs), bag, OneInfo(bag),
                     PlainInstrument, <<0, 1>>, <<0, 1>>, 2) : bag \in Bags(Len(gs))}
           : gs \in ByteSeqs(PresetGenerators, MaxGenerators)}

\* one instrument whose zone has a SAMPLE_MODES generator
SampleModesFonts ==
    {PdtaLoad(PlainPreset, <<0, 1>>, <<0, 1>>,
              GeneratorChunk(<<SampleModes(b[1], b[2]), SampleId0>>),
              <<0, 2>>, <<0, 1>>, 2) : b \in SampleModesBytes}

\* two instruments and a preset with a zone for each; a generator chunk whose
\* size is no multiple of 4; bags and infos with the terminator only; a zone
\* past the generators; an instrument without zone; an instrument whose zones
\* are past the zone list
OtherFonts ==
    {PdtaLoad(GeneratorChunk(<<Instrument0, Instrument1>>), <<0, 1, 2>>, <<0, 2>>,
              GeneratorChunk(<<SampleId0, KeyRangeInverted, SampleId0>>),
              <<0, 1, 3>>, <<0, 1, 2>>, 1),
     PdtaLoad(PlainPreset, <<0, 1>>, <<0, 1>>,
              PlainInstrument \o <<0>>, <<0, 1>>, <<0, 1>>, 2),
     PdtaLoad(PlainPreset, <<0, 1>>, <<0, 1>>, PlainInstrument, <<0>>, <<0, 1>>, 2),
     PdtaLoad(PlainPreset, <<0, 1>>, <<0, 1>>, PlainInstrument, <<0, 1>>, <<0>>, 2),
     PdtaLoad(PlainPreset, <<0, 1>>, <<0>>, PlainInstrument, <<0, 1>>, <<0, 1>>, 2),
     PdtaLoad(PlainPreset, <<0, 1>>, <<0, 1>>, PlainInstrument, <<0, 2>>, <<0, 1>>, 2),
     PdtaLoad(PlainPreset, <<0, 1>>, <<0, 1>>, PlainInstrument, <<0, 1>>, <<0, 0>>, 2),
     PdtaLoad(PlainPreset, <<0, 1>>, <<0, 1>>, PlainInstrument, <<0, 1>>, <<1, 2>>, 2)}

PdtaInputs == InstrumentFonts \cup PresetFonts \cup SampleModesFonts \cup OtherFonts

InitSoundFont == \E ld \in PdtaInputs : StartLoading(ld)

NextSoundFont ==
    \/ LoadPresetGenerators
    \/ LoadInstrumentGenerators
    \/ LoadInstrumentZones
    \/ LoadInstrument
    \/ LoadPresetZones
    \/ LoadPreset
    \/ GetSampleModes

SpecSoundFont == InitSoundFont /\ [][NextSoundFont]_vars

\* the SoundFont is loaded
Loaded == load.kind = "pdta" /\ load.state \in {"done", "read"}

\* the regions of the instruments and of the presets, as <<list, position>>
InstrumentRegions ==
    UNION {{<<i, j>> : j \in 1 .. Len(load.instruments[i])}
           : i \in 1 .. Len(load.instruments)}

PresetRegions ==
    UNION {{<<i, j>> : j \in 1 .. Len(load.presets[i])}
           : i \in 1 .. Len(load.presets)}

RangesOk(region) ==
    /\ key_range_start(region) <= key_range_end(region)
    /\ key_range_end(region) <= 127
    /\ velocity_range_start(region) <= velocity_range_end(region)
    /\ velocity_range_end(region) <= 127

\* C17: in a SoundFont that loaded without error every instrument region and
\* every preset region has key_range_start <= key_range_end <= 127 and
\* velocity_range_start <= velocity_range_end <= 127.
C17_RegionRanges ==
    Loaded =>
       /\ \A p \in InstrumentRegions : RangesOk(load.instruments[p[1]][p[2]])
       /\ \A p \in PresetRegions : RangesOk(load.presets[p[1]][p[2]])

\* a SoundFont is loaded whose instrument has a region built from a zone with
\* a KEY_RANGE generator
C17_Witness ==
    /\ Loaded
    /\ \E p \in InstrumentRegions :
          /\ load.instruments[p[1]][p[2]].gs[KEY_RANGE] # 32512
          /\ key_range_start(load.instruments[p[1]][p[2]]) = 80

\* the ranges of the regions built from zones without KEY_RANGE and
\* VELOCITY_RANGE generator are 0 .. 127
DefaultRanges ==
    Loaded /\ (\A k \in 1 .. Len(load.instrument_generators) :
                  load.instrument_generators[k].generator_type
                      \notin {KEY_RANGE, VELOCITY_RANGE})
       => \A p \in InstrumentRegions :
             /\ RangesOk(load.instruments[p[1]][p[2]])
             /\ key_range_start(load.instruments[p[1]][p[2]]) = 0
             /\ key_range_end(load.instruments[p[1]][p[2]]) = 127

\* the positions of the generators of a type in a zone
Positions(zone, type) == {k \in 1 .. Len(zone) : zone[k].generator_type = type}

\* the value of the last generator of the type in the zone, or the default
LastValue(zone, type, default) ==
    IF Positions(zone, type) = {} THEN default
    ELSE zone[CHOOSE k \in Positions(zone, type) :
                 \A l \in Positions(zone, type) : l <= k].value

\* the value resolved for a generator type: the default 0, overlaid by the
\* global zone, overlaid by the local zone
Resolved(global_zone, local_zone, type) ==
    LastValue(local_zone, type, LastValue(global_zone, type, 0))

\* the zones of the i-th instrument or preset
Span(zones, infos, i) ==
    [k \in 1 .. Min(infos[i + 1], Len(zones)) - infos[i] |-> zones[infos[i] + k]]

GlobalOf(span, type) == IF IsGlobalZone(span[1], type) THEN span[1] ELSE <<>>
LocalsOf(span, type) == IF IsGlobalZone(span[1], type) THEN Tail(span) ELSE span

\* the ids resolved for the regions of the i-th instrument or preset
ResolvedIds(zones, infos, i, type) ==
    [j \in 1 .. Len(LocalsOf(Span(zones, infos, i), type)) |->
        Resolved(GlobalOf(Span(zones, infos, i), type),
                 LocalsOf(Span(zones, infos, i), type)[j], type)]

\* every region of the list refers to one of count samples or instruments,
\* the one resolved for it
ReferencesOk(list, zones, infos, type, count) ==
    \A i \in 1 .. Len(list) :
       /\ Len(list[i]) = Len(ResolvedIds(zones, infos, i, type))
       /\ \A j \in 1 .. Len(list[i]) :
             /\ list[i][j].id = ResolvedIds(zones, infos, i, type)[j]
             /\ 0 <= list[i][j].id
             /\ list[i][j].id < count

\* some region of the infos resolves an id that is no index into a list of
\* count samples or instruments
InvalidId(zones, infos, type, count) ==
    \E i \in 1 .. Len(infos) - 1 :
    \E j \in 1 .. Len(ResolvedIds(zones, infos, i, type)) :
       ~(/\ 0 <= ResolvedIds(zones, infos, i, type)[j]
         /\ ResolvedIds(zones, infos, i, type)[j] < count)

\* C18: loading does not get past the instruments when the SAMPLE_ID resolved
\* for some instrument region (the default, overlaid by the global zone,
\* overlaid by the local zone) is no index into the sample headers, and does
\* not get past the presets when the INSTRUMENT resolved for some preset
\* region is no index into the instruments: it has failed.  Every region that
\* has been built, and so every region of a loaded SoundFont, refers to the
\* sample or instrument resolved for it, which exists.
C18_ValidReferences ==
    load.kind = "pdta" =>
       /\ load.state \in {"preset_zones", "presets", "done", "read"}
             => /\ Len(load.instruments) = Len(load.inst) - 1
                /\ ~InvalidId(load.instrument_zones, load.inst,
                              SAMPLE_ID, load.sample_count)
       /\ Loaded
             => /\ Len(load.presets) = Len(load.phdr) - 1
                /\ ~InvalidId(load.preset_zones, load.phdr,
                              INSTRUMENT, Len(load.instruments))
       /\ ReferencesOk(load.instruments, load.instrument_zones, load.inst,
                       SAMPLE_ID, load.sample_count)
       /\ ReferencesOk(load.presets, load.preset_zones, load.phdr,
                       INSTRUMENT, Len(load.instruments))

\* an instrument whose second region would have resolved an invalid SAMPLE_ID
\* from its global zone has made loading fail
C18_Witness ==
    /\ load.kind = "pdta"
    /\ load.state = "error"
    /\ Len(load.instrument_zones) = 2
    /\ Len(load.instrument_zones[2]) > 0
    /\ IsGlobalZone(load.instrument_zones[1], SAMPLE_ID)
    /\ Positions(load.instrument_zones[2], SAMPLE_ID) = {}
    /\ Resolved(load.instrument_zones[1], load.instrument_zones[2], SAMPLE_ID) = 5

\* a SoundFont with two instruments and a preset region for each is loaded
LoadedTwoInstruments ==
    /\ Loaded
    /\ Len(load.instruments) = 2
    /\ \E p \in PresetRegions : load.presets[p[1]][p[2]].id = 1

\* the loop mode the SAMPLE_MODES value of a region stands for
ExpectedLoopMode(value) ==
    IF value = 1 THEN CONTINUOUS
    ELSE IF value = 3 THEN LOOP_UNTIL_NOTE_OFF
    ELSE NO_LOOP

\* C19: the sample_modes getter of a region returns CONTINUOUS when the
\* SAMPLE_MODES value is 1, LOOP_UNTIL_NOTE_OFF when it is 3 and NO_LOOP for
\* every other value, and does not raise.
C19_SampleModes ==
    (load.kind = "pdta" /\ load.state = "read") =>
        /\ ~load.getter.error
        /\ load.getter.value =
              ExpectedLoopMode(
                 load.instruments[load.getter.instrument][load.getter.region]
                     .gs[SAMPLE_MODES])

\* the getter has been read on a region whose SAMPLE_MODES value is 4
C19_Witness ==
    /\ load.kind = "pdta"
    /\ load.state = "read"
    /\ load.instruments[load.getter.instrument][load.getter.region].gs[SAMPLE_MODES] = 4

\* the getter returns what C19 says for the values 0, 1, 2 and 3
SampleModesKnown ==
    (/\ load.kind = "pdta"
     /\ load.state = "read"
     /\ load.instruments[load.getter.instrument][load.getter.region].gs[SAMPLE_MODES]
           \in {0, 1, 2, 3})
        => /\ ~load.getter.error
           /\ load.getter.value =
                 ExpectedLoopMode(
                    load.instruments[load.getter.instrument][load.getter.region]
                        .gs[SAMPLE_MODES])

----------------------------------------------------------------------------
(* All Sound Off (controller 0x78): properties of SpecChannel.             *)

\* the voice objects that were killed and have not been started again
KilledIds(st) ==
    {st.voices[i].id :
        i \in {j \in DOMAIN st.voices :
                  st.voices[j].key # -1 /\ st.voices[j].note_gain < non_audible}}

\* st1 is st after All Sound Off on the channel: the active voices of the
\* channel have no gain, and nothing else has changed
AllSoundOffEffect(st1, st, channel) ==
    /\ st1.channels = st.channels
    /\ st1.active_voice_count = st.active_voice_count
    /\ st1.block_read = st.block_read
    /\ st1.block_voices = st.block_voices
    /\ \A i \in DOMAIN st.voices :
          IF i <= st.active_voice_count /\ st.voices[i].channel = channel
          THEN /\ st1.voices[i].note_gain = 0
               /\ [st1.voices[i] EXCEPT !.note_gain = st.voices[i].note_gain]
                     = st.voices[i]
          ELSE st1.voices[i] = st.voices[i]

AllSoundOffFrame ==
    \A channel \in Channels :
       AllSoundOffEffect(process_midi_message(font, synth, channel, 176, 120, 0),
                         synth, channel)

\* an iteration of render that calls _render_block: no killed voice is active
\* or mixed into the block afterwards
KilledRemoved ==
    (pc = "render" /\ pc' = "render" /\ synth'.blocks # synth.blocks)
       => KilledIds(synth) \cap (ActiveIds(synth') \cup synth'.block_voices) = {}

\* an iteration of render that does not call _render_block copies samples of
\* the block rendered before
CopiesOldBlock ==
    (pc = "render" /\ pc' = "render" /\ synth'.blocks = synth.blocks)
       => /\ synth.block_read < BlockSize
          /\ synth'.block_voices = synth.block_voices
          /\ synth'.voices = synth.voices

\* an iteration of render copies no sample with a killed voice mixed in
CopiesNoKilled ==
    (pc = "render" /\ pc' = "render")
       => KilledIds(synth) \cap synth'.block_voices = {}

\* C21: All Sound Off on a channel sets the gain of the active voices of the
\* channel to 0 and changes nothing else, so voices on other channels are
\* unaffected; the next call of _render_block removes the killed voices from
\* the active set and mixes none of them into its block or any later one.
\* The samples of the block rendered before the message that are still to be
\* returned (fewer than block_size) are returned as they were rendered.
C21_KilledAtNextBlock ==
    /\ []AllSoundOffFrame
    /\ [][KilledRemoved /\ CopiesOldBlock]_vars

\* a _render_block has removed a killed voice from the active set
C21_Witness ==
    /\ pc = "render"
    /\ synth.blocks = 1
    /\ last.op = "render"
    /\ synth.active_voice_count = 0
    /\ \E i \in DOMAIN synth.voices :
          /\ synth.voices[i].key # -1
          /\ synth.voices[i].note_gain = 0
          /\ synth.voices[i].id \notin synth.block_voices

\* C21 as stated: no sample returned by a render call after All Sound Off has
\* a killed voice mixed in.
C21_SilentImmediately ==
    /\ []AllSoundOffFrame
    /\ [][KilledRemoved /\ CopiesNoKilled]_vars

----------------------------------------------------------------------------
(* SoundFontInfo: the INFO list of a SoundFont.  A string is the sequence  *)
(* of its bytes; the loader keeps the list of the sub-chunks the file was  *)
(* built from in load.chunks, which the code never sees.                   *)

\* the four-character codes of the INFO list
LIST == <<76, 73, 83, 84>>
INFO == <<73, 78, 70, 79>>
ifil == <<105, 102, 105, 108>>
isng == <<105, 115, 110, 103>>
INAM == <<73, 78, 65, 77>>
irom == <<105, 114, 111, 109>>
iver == <<105, 118, 101, 114>>
ICRD == <<73, 67, 82, 68>>
IENG == <<73, 69, 78, 71>>
IPRD == <<73, 80, 82, 68>>
ICOP == <<73, 67, 79, 80>>
ICMT == <<73, 67, 77, 84>>
ISFT == <<73, 83, 70, 84>>

\* _BinaryReaderEx.read_uint32
read_uint32(rd) == ReadUint16From(ReaderRead(rd, 4))

\* read_fixed_length_string: the number of bytes before the first zero byte
ActualLength(data) ==
    IF \E i \in 1 .. Len(data) : data[i] = 0
    THEN (CHOOSE i \in 1 .. Len(data) :
             data[i] = 0 /\ \A j \in 1 .. i - 1 : data[j] # 0) - 1
    ELSE Len(data)

\* data[0:actualLength].decode("ascii") raises for a byte above 127
DecodeAscii(bytes, rd) ==
    [value |-> bytes, rd |-> rd,
     error |-> \E i \in 1 .. Len(bytes) : bytes[i] >= 128]

\* _BinaryReaderEx.read_fixed_length_string, r being what reader.read returned
FixedLengthString(r) ==
    DecodeAscii(SubSeq(r.bytes, 1, ActualLength(r.bytes)), r.rd)
read_fixed_length_string(rd, length) == FixedLengthString(ReaderRead(rd, length))

\* SoundFontVersion(read_uint16(reader), read_uint16(reader))
VersionOf(major, minor) ==
    [value |-> [major |-> major.value, minor |-> minor.value],
     rd |-> minor.rd, error |-> FALSE]
VersionAfter(major) == VersionOf(major, read_uint16(major.rd))
ReadVersion(rd) == VersionAfter(read_uint16(rd))

\* the class attributes of SoundFontInfo
SoundFontInfoDefaults ==
    [version |-> [major |-> 0, minor |-> 0],
     target_sound_engine |-> <<>>,
     bank_name |-> <<>>,
     rom_name |-> <<>>,
     rom_version |-> [major |-> 0, minor |-> 0],
     creation_date |-> <<>>,
     author |-> <<>>,
     target_product |-> <<>>,
     copyright |-> <<>>,
     comments |-> <<>>,
     tools |-> <<>>]

\* the cases of the match statement: the field a sub-chunk id is stored in
VersionIds == {ifil, iver}
StringIds == {isng, INAM, irom, ICRD, IENG, IPRD, ICOP, ICMT, ISFT}
InfoField(id) ==
    CASE id = ifil -> "version"
      [] id = isng -> "target_sound_engine"
      [] id = INAM -> "bank_name"
      [] id = irom -> "rom_name"
      [] id = iver -> "rom_version"
      [] id = ICRD -> "creation_date"
      [] id = IENG -> "author"
      [] id = IPRD -> "target_product"
      [] id = ICOP -> "copyright"
      [] id = ICMT -> "comments"
      [] id = ISFT -> "tools"

\* the body of a case: what it reads; the size is used by the strings only
InfoCase(id, size, rd) ==
    IF id \in VersionIds THEN ReadVersion(rd)
    ELSE read_fixed_length_string(rd, size)

\* where the loader is after an iteration, or after the header of the list
InfoState(error, rd, end) ==
    IF error THEN "error" ELSE IF rd.pos < end THEN "chunks" ELSE "done"

InfoLoad(bytes, chunks) ==
    [kind |-> "info", state |-> "list", rd |-> [data |-> bytes, pos |-> 0],
     end |-> 0, chunks |-> chunks, info |-> SoundFontInfoDefaults]

\* SoundFontInfo.__init__ up to the loop
InfoHeader(chunk_id, size, list_type) ==
    load' = [load EXCEPT
               !.rd = list_type.rd,
               !.end = size.value + size.rd.pos,
               !.state = InfoState(chunk_id.value # LIST \/ list_type.value # INFO,
                                   list_type.rd, size.value + size.rd.pos)]

InfoHeaderAfter(chunk_id, size) == InfoHeader(chunk_id, size, read_four_cc(size.rd))

LoadInfoList ==
    /\ load.kind = "info"
    /\ load.state = "list"
    /\ \E chunk_id \in {read_four_cc(load.rd)} :
          InfoHeaderAfter(chunk_id, read_uint32(chunk_id.rd))
    /\ UNCHANGED <<font, synth, pc, frame, left, right, ops, last, probe, seq>>

\* an iteration of the loop: id, size and the case of the id
InfoStore(id, r) ==
    load' = [load EXCEPT
               !.rd = r.rd,
               !.info[InfoField(id)] = IF r.error THEN @ ELSE r.value,
               !.state = InfoState(r.error, r.rd, load.end)]

InfoUnknown(size) ==
    load' = [load EXCEPT !.rd = size.rd, !.state = "error"]

InfoChunk(id, size) ==
    IF id.value \in VersionIds \cup StringIds
    THEN InfoStore(id.value, InfoCase(id.value, size.value, size.rd))
    ELSE InfoUnknown(size)

LoadInfoChunk ==
    /\ load.kind = "info"
    /\ load.state = "chunks"
    /\ \E id \in {read_four_cc(load.rd)} : InfoChunk(id, read_uint32(id.rd))
    /\ UNCHANGED <<font, synth, pc, frame, left, right, ops, last, probe, seq>>

----------------------------------------------------------------------------
(* SpecInfo: INFO lists of at most MaxInfoChunks sub-chunks are loaded.    *)

MaxInfoChunks == 2

\* the four bytes of a 32-bit size, least significant byte first
Uint32Bytes(n) == <<n % 256, (n \div 256) % 256, 0, 0>>

SubChunk(id, data) == [id |-> id, data |-> data]
SubChunkBytes(chunk) == chunk.id \o Uint32Bytes(Len(chunk.data)) \o chunk.data

RECURSIVE ChunksBytes(_)
ChunksBytes(chunks) ==
    IF chunks = <<>> THEN <<>>
    ELSE SubChunkBytes(Head(chunks)) \o ChunksBytes(Tail(chunks))

ListBytes(list_id, list_type, body) ==
    list_id \o Uint32Bytes(4 + Len(body)) \o list_type \o body

\* sub-chunks as the SoundFont format wants them, the strings with and
\* without a terminator, with bytes after it, empty, and of odd length
PlainChunks ==
    {SubChunk(ifil, <<2, 0, 1, 0>>),
     SubChunk(iver, <<3, 0, 7, 1>>),
     SubChunk(isng, <<69, 0>>),
     SubChunk(isng, <<65, 0, 200, 0>>),
     SubChunk(INAM, <<65, 66, 0, 67>>),
     SubChunk(INAM, <<66, 0>>),
     SubChunk(irom, <<>>),
     SubChunk(ICRD, <<49>>),
     SubChunk(IENG, <<0, 65>>),
     SubChunk(IPRD, <<80, 0>>),
     SubChunk(ICOP, <<67, 0>>),
     SubChunk(ICMT, <<77, 0>>),
     SubChunk(ISFT, <<84, 0>>)}

\* an ifil sub-chunk of fourteen bytes: a version and ten bytes that look
\* like a sub-chunk INAM
EmbeddedName == SubChunkBytes(SubChunk(INAM, <<88, 0>>))

\* sub-chunks of other sizes, of another id, and with a byte above 127
OtherChunks ==
    {SubChunk(ifil, <<2, 0, 1, 0, 0, 0>>),
     SubChunk(ifil, <<2, 0, 1, 0>> \o EmbeddedName),
     SubChunk(iver, <<3, 0>>),
     SubChunk(<<97, 98, 99, 100>>, <<0, 0>>),
     SubChunk(isng, <<200, 0>>)}

InfoChunks == PlainChunks \cup OtherChunks

InfoLists == UNION {[1 .. n -> InfoChunks] : n \in 0 .. MaxInfoChunks}

\* a list with every sub-chunk of the format once
FullList ==
    <<SubChunk(ifil, <<2, 0, 1, 0>>), SubChunk(isng, <<69, 0>>),
      SubChunk(INAM, <<65, 66, 0, 67>>), SubChunk(irom, <<>>),
      SubChunk(iver, <<3, 0, 7, 1>>), SubChunk(ICRD, <<49>>),
      SubChunk(IENG, <<0, 65>>), SubChunk(IPRD, <<80, 0>>),
      SubChunk(ICOP, <<67, 0>>), SubChunk(ICMT, <<77, 0>>),
      SubChunk(ISFT, <<84, 0>>)>>

InfoInputs ==
    {InfoLoad(ListBytes(LIST, INFO, ChunksBytes(chunks)), chunks) :
        chunks \in InfoLists \cup {FullList}}
    \cup {InfoLoad(ListBytes(<<82, 73, 70, 70>>, INFO, <<>>), <<>>),
          InfoLoad(ListBytes(LIST, <<115, 100, 116, 97>>, <<>>), <<>>)}

InitInfo == \E ld \in InfoInputs : StartLoading(ld)

NextInfo ==
    \/ LoadInfoList
    \/ LoadInfoChunk

SpecInfo == InitInfo /\ [][NextInfo]_vars

----------------------------------------------------------------------------
(* SoundFontInfo: properties of SpecInfo.                                  *)

InfoLoaded == load.kind = "info" /\ load.state = "done"

\* the sub-chunks of the file with an id
ChunksOf(id) == {i \in DOMAIN load.chunks : load.chunks[i].id = id}

\* the bytes of a sub-chunk up to but excluding the first zero byte
UpToNul(data) ==
    CHOOSE s \in {SubSeq(data, 1, n) : n \in 0 .. Len(data)} :
        /\ \A i \in 1 .. Len(s) : s[i] # 0
        /\ Len(s) = Len(data) \/ data[Len(s) + 1] = 0

\* the (major, minor) pair of a sub-chunk: two 16-bit numbers
BytesAt(data, first, end) ==
    [i \in 1 .. Min(end, Len(data)) - Min(first - 1, Len(data)) |->
        data[first - 1 + i]]
MajorMinor(data) ==
    [major |-> FromBytesLittle(BytesAt(data, 1, 2)),
     minor |-> FromBytesLittle(BytesAt(data, 3, 4))]

ContentOf(id, data) ==
    IF id \in VersionIds THEN MajorMinor(data) ELSE UpToNul(data)

\* the field of an id holds the content of a sub-chunk with the id, or the
\* default when there is none
FieldExposes(id) ==
    IF ChunksOf(id) = {}
    THEN load.info[InfoField(id)] = SoundFontInfoDefaults[InfoField(id)]
    ELSE \E i \in ChunksOf(id) :
            load.info[InfoField(id)] = ContentOf(id, load.chunks[i].data)

\* C22: after a successful load every field of SoundFontInfo is the content
\* of its INFO sub-chunk (the version pairs of ifil and iver, the bytes of a
\* string up to but excluding the first NUL), and the field of an absent
\* sub-chunk is the empty string or version 0.0
C22_InfoFields ==
    InfoLoaded => \A id \in VersionIds \cup StringIds : FieldExposes(id)

\* a list with a name that has bytes after the NUL, and without a date, loaded
C22_Witness ==
    /\ InfoLoaded
    /\ \E i \in ChunksOf(INAM) : load.chunks[i].data = <<65, 66, 0, 67>>
    /\ load.info.bank_name = <<65, 66>>
    /\ ChunksOf(ICRD) = {}
    /\ load.info.creation_date = <<>>

\* the ifil and iver sub-chunks of the file are four bytes long
VersionsSized ==
    \A i \in DOMAIN load.chunks :
        load.chunks[i].id \in VersionIds => Len(load.chunks[i].data) = 4

\* the fields are as C22 says for the files with ifil and iver of four bytes
InfoFieldsWhenSized == VersionsSized => C22_InfoFields

\* every sub-chunk of the format in one file
InfoFullLoaded == InfoLoaded /\ load.chunks = FullList

----------------------------------------------------------------------------
(* _ModulationEnvelope, with times in sample periods and values in         *)
(* thousandths like the volume envelope.                                   *)

\* _ModulationEnvelope.process, the value of the envelope in each stage
ModEnvValue(env, stage, current_time) ==
    CASE stage = DELAY -> 0
      [] stage = ATTACK ->
            (Unit * (current_time - env.attack_start_time)) \div env.attack
      [] stage = HOLD -> Unit
      [] stage = DECAY ->
            Max((Unit * (env.decay_end_time - current_time)) \div env.decay,
                env.sustain_level)
      [] stage = RELEASE ->
            Max((env.release_level * (env.release_end_time - current_time))
                  \div env.release, 0)

\* _ModulationEnvelope.process, the assignments and the return for a stage and value
ModEnvAssign(env, current_time, stage, value) ==
    [env |-> [env EXCEPT !.processed_sample_count = current_time,
                         !.stage = stage,
                         !.value = value],
     result |-> IF stage >= DECAY THEN value > non_audible ELSE TRUE]

ModEnvProcessStage(env, current_time, stage) ==
    ModEnvAssign(env, current_time, stage, ModEnvValue(env, stage, current_time))

ModEnvProcessAt(env, current_time) ==
    ModEnvProcessStage(env, current_time, AdvanceStage(env, env.stage, current_time))

\* _ModulationEnvelope.process: the envelope afterwards and the value returned
ModEnvProcess(env, sample_count) ==
    ModEnvProcessAt(env, env.processed_sample_count + sample_count)

\* _ModulationEnvelope.start
ModEnvStart(delay, attack, hold, decay, sustain, release) ==
    ModEnvProcess([attack |-> attack, decay |-> decay, release |-> release,
                   attack_start_time |-> delay,
                   hold_start_time |-> delay + attack,
                   decay_start_time |-> delay + attack + hold,
                   decay_end_time |-> delay + attack + hold + decay,
                   release_end_time |-> release,
                   sustain_level |-> clamp(sustain, 0, Unit),
                   release_level |-> 0,
                   processed_sample_count |-> 0,
                   stage |-> DELAY,
                   value |-> 0], 0).env

\* _ModulationEnvelope.release
ModEnvRelease(env) ==
    [env EXCEPT !.stage = RELEASE,
                !.release_end_time = @ + env.processed_sample_count,
                !.release_level = env.value]

----------------------------------------------------------------------------
(* SpecEnvelope: one envelope of either class is started, processed and    *)
(* released.  load.op is the method called last, load.result what the last *)
(* process returned, load.error whether it raised 'Invalid envelope stage'.*)

\* process is not explored once the envelope has run this many samples
MaxEnvelopeTime == 6

EnvelopeClasses == {"volume", "modulation"}
\* delay, attack, hold, decay, sustain and release of the envelopes explored
EnvelopeParameters ==
    {<<0, 1, 0, 1, 0, 1>>, <<1, 1, 1, 1, 0, 1>>, <<1, 2, 1, 4, 500, 4>>,
     <<0, 2, 0, 4, 500, 1>>, <<1, 1, 0, 4, 0, 4>>, <<0, 1, 1, 1, 500, 4>>}
EnvelopeSampleCounts == {0, 1, BlockSize, 3}

\* the case _ of the match statement in the while loop
InvalidStage(stage) == stage <= HOLD /\ stage \notin {DELAY, ATTACK, HOLD}

EnvelopeStarted(class, delay, attack, hold, decay, sustain, release) ==
    [kind |-> "envelope", class |-> class, op |-> "start",
     env |-> IF class = "volume"
             THEN VolEnvStart(delay, attack, hold, decay, sustain, release)
             ELSE ModEnvStart(delay, attack, hold, decay, sustain, release),
     result |-> TRUE, error |-> FALSE]

EnvelopeInputs ==
    {EnvelopeStarted(class, p[1], p[2], p[3], p[4], p[5], p[6]) :
        class \in EnvelopeClasses, p \in EnvelopeParameters}

InitEnvelope == \E ld \in EnvelopeInputs : StartLoading(ld)

\* start() on the envelope in use
EnvelopeStart ==
    /\ load.kind = "envelope"
    /\ \E ld \in EnvelopeInputs :
          /\ ld.class = load.class
          /\ load' = ld
    /\ UNCHANGED <<font, synth, pc, frame, left, right, ops, last, probe, seq>>

EnvelopeProcessed(r) ==
    load' = [load EXCEPT !.op = "process", !.env = r.env, !.result = r.result,
                         !.error = InvalidStage(load.env.stage)]

\* process(sample_count)
EnvelopeProcess(sample_count) ==
    /\ load.kind = "envelope"
    /\ load.env.processed_sample_count + sample_count <= MaxEnvelopeTime
    /\ EnvelopeProcessed(IF load.class = "volume"
                         THEN VolEnvProcess(load.env, sample_count)
                         ELSE ModEnvProcess(load.env, sample_count))
    /\ UNCHANGED <<font, synth, pc, frame, left, right, ops, last, probe, seq>>

\* release(), which _Voice.release_if_necessary calls once after a start
EnvelopeRelease ==
    /\ load.kind = "envelope"
    /\ load.env.stage # RELEASE
    /\ load' = [load EXCEPT !.op = "release",
                            !.env = IF load.class = "volume"
                                    THEN VolEnvRelease(load.env)
                                    ELSE ModEnvRelease(load.env)]
    /\ UNCHANGED <<font, synth, pc, frame, left, right, ops, last, probe, seq>>

NextEnvelope ==
    \/ EnvelopeStart
    \/ \E sample_count \in EnvelopeSampleCounts : EnvelopeProcess(sample_count)
    \/ EnvelopeRelease

SpecEnvelope == InitEnvelope /\ [][NextEnvelope]_vars

----------------------------------------------------------------------------
(* The stages of an envelope: properties of SpecEnvelope.                  *)

\* without a start in between the stage does not go back
StageForward ==
    load'.op # "start" => load'.env.stage >= load.env.stage

\* process leaves DELAY, ATTACK and HOLD for the next stages, never for RELEASE
ProcessStages ==
    load'.op = "process" /\ load'.env.stage # load.env.stage
        => load.env.stage <= HOLD /\ load'.env.stage <= DECAY

\* RELEASE is entered by release() only
ReleaseByRelease ==
    load'.env.stage = RELEASE /\ load.env.stage # RELEASE => load'.op = "release"

\* process returns false in DECAY and RELEASE only, and does not raise
ProcessResult ==
    load.op = "process" =>
        /\ ~load.result => load.env.stage \in {DECAY, RELEASE}
        /\ ~load.error

EnvelopeStages == load.env.stage \in {DELAY, ATTACK, HOLD, DECAY, RELEASE}

\* C25: for the volume and the modulation envelope, between two calls of
\* start the stage only moves forward through DELAY, ATTACK, HOLD and DECAY,
\* several stages in one process call included, and enters RELEASE only by
\* release(); process returns false only in DECAY or RELEASE and never
\* raises 'Invalid envelope stage'
C25_EnvelopeStages ==
    /\ [](EnvelopeStages /\ ProcessResult)
    /\ [][StageForward /\ ProcessStages /\ ReleaseByRelease]_vars

\* a process call took a modulation envelope from DELAY to DECAY, and the
\* envelope, released, has returned false
C25_Witness ==
    /\ load.kind = "envelope"
    /\ load.class = "modulation"
    /\ load.op = "process"
    /\ load.env.stage = RELEASE
    /\ ~load.result
    /\ load.env.decay_start_time <= 2

\* a volume envelope goes through two stages in one process call
SeveralStages ==
    /\ load.class = "volume"
    /\ load.env.stage = DELAY
    /\ load'.op = "process"
    /\ load'.env.stage >= HOLD

NoSeveralStages == [][~SeveralStages]_vars

----------------------------------------------------------------------------
(* The release of a voice: properties of Spec.                             *)

\* the voice object with an id, and whether it is active
VoiceOfId(st, id) == st.voices[CHOOSE i \in DOMAIN st.voices : st.voices[i].id = id]
ActiveId(st, id) == id \in ActiveIds(st)

\* an iteration of render that calls _render_block, which processes the
\* active voices
BlockProcessed == pc = "render" /\ pc' = "render" /\ synth'.blocks # synth.blocks

\* the release of a voice is requested, the pedal of its channel is off and
\* the voice has run the minimum duration
ReleaseDue(st, voice) ==
    /\ voice.voice_state = RELEASE_REQUESTED
    /\ ~st.channels[voice.channel].hold_pedal
    /\ voice.voice_length >= minimum_voice_duration

\* voice1 is the voice after the release of the envelope and the oscillator
ReleasedFrom(voice1, voice) ==
    /\ voice1.vol_env.stage = RELEASE
    /\ voice1.vol_env.release_start_time = voice.vol_env.processed_sample_count
    /\ voice1.vol_env.release_level = voice.vol_env.value
    /\ voice.oscillator.loop_mode = LOOP_UNTIL_NOTE_OFF => ~voice1.oscillator.looping

\* a voice becomes RELEASED only when _render_block processes it, active,
\* with the release due, and with its envelope and oscillator released
ReleasedOnlyWhenDue ==
    \A id \in 1 .. MaxPolyphony :
       (/\ VoiceOfId(synth', id).voice_state = RELEASED
        /\ VoiceOfId(synth, id).voice_state # RELEASED)
          => /\ BlockProcessed
             /\ ActiveId(synth, id)
             /\ ReleaseDue(synth, VoiceOfId(synth, id))
             /\ ReleasedFrom(VoiceOfId(synth', id), VoiceOfId(synth, id))

\* an active voice with the release due is RELEASED after the block
ReleasedWhenDue ==
    \A id \in 1 .. MaxPolyphony :
       (/\ BlockProcessed
        /\ ActiveId(synth, id)
        /\ ReleaseDue(synth, VoiceOfId(synth, id)))
          => VoiceOfId(synth', id).voice_state = RELEASED

\* the same for the voices that are audible; a voice without gain leaves
\* the active set as it is
ReleasedWhenAudible ==
    \A id \in 1 .. MaxPolyphony :
       (/\ BlockProcessed
        /\ ActiveId(synth, id)
        /\ ReleaseDue(synth, VoiceOfId(synth, id)))
          => IF VoiceOfId(synth, id).note_gain >= non_audible
             THEN VoiceOfId(synth', id).voice_state = RELEASED
             ELSE /\ VoiceOfId(synth', id) = VoiceOfId(synth, id)
                  /\ ~ActiveId(synth', id)

HeldVoiceProcessed ==
    /\ BlockProcessed
    /\ \E id \in ActiveIds(synth) :
          /\ VoiceOfId(synth, id).voice_state = RELEASE_REQUESTED
          /\ synth.channels[VoiceOfId(synth, id).channel].hold_pedal
          /\ VoiceOfId(synth', id).voice_state = RELEASE_REQUESTED

NoHeldVoiceProcessed == [][~HeldVoiceProcessed]_vars

\* a block is processed while a release is requested of a voice that has not
\* run the minimum duration
YoungVoiceProcessed ==
    /\ BlockProcessed
    /\ \E id \in ActiveIds(synth) :
          /\ VoiceOfId(synth, id).voice_state = RELEASE_REQUESTED
          /\ ~synth.channels[VoiceOfId(synth, id).channel].hold_pedal
          /\ VoiceOfId(synth, id).voice_length < minimum_voice_duration
          /\ VoiceOfId(synth', id).voice_state = RELEASE_REQUESTED

NoYoungVoiceProcessed == [][~YoungVoiceProcessed]_vars

----------------------------------------------------------------------------
(* The loop of the sequencer: properties of SpecSequencer.                 *)

\* the file that is played
PlayedFile == MidiFiles[seq.midi_file]

\* an iteration of the sequencer's render that calls _process_events on a file
EventsProcessed ==
    /\ pc = "seq_render"
    /\ pc' = "render"
    /\ seq.block_wrote = BlockSize
    /\ seq.midi_file # 0

\* the call consumes the last message: every message is due
LastConsumed == EventsProcessed /\ MidiFileLength(PlayedFile) <= seq.current_time

\* with loop, the call that consumes the last message sets msg_index and
\* current_time to 0 (render then adds the block to current_time) and
\* requests the release of every active voice
LoopRestarts ==
    (LastConsumed /\ seq.loop)
       => /\ seq'.msg_index = 0
          /\ seq'.current_time = BlockSize
          /\ seq'.log = <<>>
          /\ \A i \in 1 .. synth'.active_voice_count :
                synth'.voices[i].voice_state # PLAYING

\* without loop, the call that consumes the last message leaves msg_index
\* at the end
NoLoopEnds ==
    (LastConsumed /\ ~seq.loop) => seq'.msg_index = Len(PlayedFile.messages)

\* without loop and without another play, msg_index stays at the end and
\* no message is dispatched
NoLoopStays ==
    (/\ seq.midi_file # 0
     /\ ~seq.loop
     /\ seq.msg_index = Len(PlayedFile.messages)
     /\ ops' = ops)
       => /\ seq'.msg_index = seq.msg_index
          /\ seq'.log = seq.log

\* C24: with loop = true, the _process_events call in which the last merged
\* message is consumed sets current_time and msg_index to 0 and requests the
\* release of all active voices, so the messages are dispatched again from
\* the first in the same order; with loop = false, msg_index stays at the end
\* and no message is dispatched again
C24_LoopRestart ==
    /\ [](seq.played => DispatchedInOrder)
    /\ [][LoopRestarts /\ NoLoopEnds /\ NoLoopStays]_vars

\* the loop has restarted, which has requested the release of the hi-hat of
\* FileSong, and the first messages of the file are dispatched again
C24_Witness ==
    /\ seq.loop
    /\ seq.midi_file = 1
    /\ seq.log = <<1, 2, 3>>
    /\ \E i \in 1 .. synth.active_voice_count :
          /\ synth.voices[i].channel = PERCUSSION_CHANNEL
          /\ synth.voices[i].key = 46
          /\ synth.voices[i].voice_state # PLAYING

\* a file without loop has been played to its end
PlayedToEnd ==
    /\ seq.midi_file # 0
    /\ ~seq.loop
    /\ seq.msg_index = Len(PlayedFile.messages)
    /\ seq.current_time > MidiFileLength(PlayedFile) + BlockSize

----------------------------------------------------------------------------
(* Unknown generators: properties of SpecSoundFont.                        *)

\* the records of a generator chunk whose type is above UNUSED_END
UnknownRecords(data) ==
    {k \in 0 .. Len(data) \div 4 - 1 :
        FromBytesLittle(SubSeq(data, 4 * k + 1, 4 * k + 2)) > UNUSED_END}

\* read_from_chunk has stopped inside a record, after the type
StoppedAtRecord(rd) == rd.pos % 4 = 2

\* C26: a pgen or igen record whose generator type is outside 0 .. 60 does not
\* fail the load: no load ends in an error raised while such a record is read
C26_UnknownIgnored ==
    load.kind = "pdta" /\ load.state = "error"
        => ~StoppedAtRecord(load.pgen) /\ ~StoppedAtRecord(load.igen)

\* the igen chunk of a font with a record of type 61 in front of a valid
\* SAMPLE_ID has been read
C26_Witness ==
    /\ load.kind = "pdta"
    /\ load.igen.data = GeneratorChunk(<<UnknownGenerator, SampleId0>>)
    /\ load.igen.pos > 0
    /\ load.state # "igen"

\* no font with an unknown record gets past the reading of its generators
UnknownNeverLoaded ==
    (/\ load.kind = "pdta"
     /\ UnknownRecords(load.pgen.data) \cup UnknownRecords(load.igen.data) # {})
        => load.state \in {"pgen", "igen", "error"}

----------------------------------------------------------------------------
(* SpecMessages: messages process_midi_message does not recognize, next to *)
(* controllers, program change, pitch bend, note-on and render calls of    *)
(* one sample.                                                             *)

\* the channels outside 0 .. 15, the commands and the controllers without a
\* case that are explored
OtherChannels == {-1, 16, 255}
Commands == {128, 144, 176, 192, 224}
OtherCommands == {0, 160, 208, 240, 255}
OtherControllers == (0 .. 128) \ Controllers

UnrecognizedMessages ==
    {<<16, 144, 42, 100>>, <<-1, 176, 7, 5>>, <<255, 192, 5, 0>>,
     <<0, 160, 42, 100>>, <<PERCUSSION_CHANNEL, 208, 5, 0>>, <<0, 240, 0, 0>>,
     <<0, 176, 2, 5>>, <<PERCUSSION_CHANNEL, 176, 32, 1>>, <<0, 176, 122, 0>>}

NextMessages ==
    \/ /\ ops < MaxControlOps
       /\ \/ \E msg \in UnrecognizedMessages :
                ProcessMidiMessage(msg[1], msg[2], msg[3], msg[4])
          \/ \E channel \in Channels, data1 \in {0, 7, 64, 120, 123} :
                ProcessMidiMessage(channel, 176, data1, ControlValue(data1))
          \/ \E channel \in Channels : ProcessMidiMessage(channel, 192, 5, 0)
          \/ \E channel \in Channels : ProcessMidiMessage(channel, 224, 5, 5)
          \/ \E channel \in Channels : NoteOn(channel, 42, 100)
    \/ RenderCall(0, 1)
    \/ RenderLoop
    \/ RenderReturn

SpecMessages == Init /\ [][NextMessages]_vars

\* a message for a channel outside 0 .. 15, with a command without a case,
\* or a controller without a case, changes nothing
IgnoredMessages ==
    /\ \A channel \in OtherChannels, command \in Commands \cup OtherCommands,
          data1 \in {0, 7, 42, 120}, data2 \in {0, 100} :
          process_midi_message(font, synth, channel, command, data1, data2) = synth
    /\ \A channel \in Channels, command \in OtherCommands,
          data1 \in {0, 7, 42, 120}, data2 \in {0, 100} :
          process_midi_message(font, synth, channel, command, data1, data2) = synth
    /\ \A channel \in Channels, data1 \in OtherControllers, data2 \in {0, 100} :
          process_midi_message(font, synth, channel, 176, data1, data2) = synth

\* r is the state after a message for the channel: the other channels, the
\* voices that are not active on the channel, the number of active voices and
\* the block cursor are as before
OnlyChannel(r, channel) ==
    /\ \A other \in DOMAIN synth.channels :
          other # channel => r.channels[other] = synth.channels[other]
    /\ \A i \in DOMAIN synth.voices :
          (i > synth.active_voice_count \/ synth.voices[i].channel # channel)
             => r.voices[i] = synth.voices[i]
    /\ r.active_voice_count = synth.active_voice_count
    /\ r.block_read = synth.block_read
    /\ r.block_voices = synth.block_voices

RecognizedMessages ==
    /\ \A channel \in Channels, data1 \in Controllers, data2 \in {0, 5, 127} :
          OnlyChannel(process_midi_message(font, synth, channel, 176, data1, data2),
                      channel)
    /\ \A channel \in Channels, data1 \in {0, 5}, data2 \in {0, 5} :
          /\ OnlyChannel(process_midi_message(font, synth, channel, 192, data1, data2),
                         channel)
          /\ OnlyChannel(process_midi_message(font, synth, channel, 224, data1, data2),
                         channel)

\* C27: process_midi_message with a channel outside 0 .. 15, with a command
\* other than 0x80, 0x90, 0xB0, 0xC0 and 0xE0, or with 0xB0 and a controller
\* outside the table leaves every channel, the voice pool and the block
\* cursor unchanged; a controller of the table, a program change or a pitch
\* bend modifies only the addressed channel
C27_MessageFrame == IgnoredMessages /\ RecognizedMessages

\* a message for channel 16 has been processed while a voice was active in
\* the middle of a block
C27_Witness ==
    /\ last.op = "process_midi_message"
    /\ ~ValidChannel(last.channel)
    /\ synth.block_read < BlockSize
    /\ synth.active_voice_count > 0

----------------------------------------------------------------------------
(* _VoiceCollection.process: properties of Spec.                           *)

\* what process() does to the voice object with an id, called once before
\* the block
ProcessedOnce(id) == VoiceProcess(VoiceOfId(synth, id), synth.channels)

\* the pool holds each of the maximum_polyphony voice objects once
PoolPermutation(st) ==
    /\ DOMAIN st.voices = 1 .. MaxPolyphony
    /\ \A id \in 1 .. MaxPolyphony :
          Cardinality({i \in DOMAIN st.voices : st.voices[i].id = id}) = 1

\* every voice active before the block is after it what one call of process()
\* makes of it, and every other voice is as before
EachProcessedOnce ==
    BlockProcessed =>
       \A id \in 1 .. MaxPolyphony :
          VoiceOfId(synth', id) =
             IF ActiveId(synth, id) THEN ProcessedOnce(id).voice
             ELSE VoiceOfId(synth, id)

\* the active voices after the block are the voices whose process() has
\* returned true, each once
SurvivorsActive ==
    BlockProcessed =>
       /\ ActiveIds(synth') = {id \in ActiveIds(synth) : ProcessedOnce(id).result}
       /\ Cardinality(ActiveIds(synth')) = synth'.active_voice_count
       /\ synth'.active_voice_count <= synth.active_voice_count

\* when the pool is full and the first voice dies, it changes places with the
\* last voice: it ends in the last place, and the last voice ends in the first
\* place if it stays active
FirstDeathSwapped ==
    (/\ BlockProcessed
     /\ synth.active_voice_count = MaxPolyphony
     /\ ~ProcessedOnce(synth.voices[1].id).result)
       => /\ synth'.voices[MaxPolyphony].id = synth.voices[1].id
          /\ ProcessedOnce(synth.voices[MaxPolyphony].id).result
                => synth'.voices[1].id = synth.voices[MaxPolyphony].id

\* C28: _VoiceCollection.process calls process() exactly once on each voice
\* that is active at entry; afterwards the active voices are exactly the
\* voices whose process() has returned true, each once, a voice that has died
\* having changed places with the last active voice; the pool stays a
\* permutation of the same maximum_polyphony voice objects
C28_ProcessOnce ==
    /\ []PoolPermutation(synth)
    /\ [][EachProcessedOnce /\ SurvivorsActive /\ FirstDeathSwapped]_vars

\* the first of two active voices has died in a block: the second one has
\* taken its place and has been processed in the same block
C28_Witness ==
    /\ pc = "render"
    /\ synth.blocks = 1
    /\ synth.active_voice_count = 1
    /\ synth.voices[1].id = 2
    /\ synth.voices[1].voice_length = BlockSize
    /\ synth.voices[2].id = 1
    /\ synth.voices[2].key # -1
    /\ synth.voices[2].note_gain = 0

----------------------------------------------------------------------------
(* SpecPlayback: play, stop, the sequencer's render, and direct calls of   *)
(* the synthesizer's reset and render in between.                          *)

NextPlayback ==
    \/ /\ ops < MaxOps - 2
       /\ \/ \E midi_file \in DOMAIN MidiFiles, loop \in BOOLEAN :
                Play(midi_file, loop)
          \/ Stop
          \/ Reset
    \/ \E count \in {1, BlockSize, BufferLength} : SeqRenderCall(count)
    \/ SeqRenderLoop
    \/ SeqRenderResume
    \/ SeqRenderReturn
    \/ ops < MaxOps - 2 /\ RenderCall(0, 1)
    \/ RenderLoop
    \/ RenderReturn

SpecPlayback == Init /\ [][NextPlayback]_vars

\* the block cursors of the sequencer and the synthesizer agree: at the start
\* of an iteration of the sequencer's render loop and between its calls they
\* are equal; inside the iteration the synthesizer is ahead by what it has
\* copied, its cursor still at the end of the old block when the sequencer
\* has just started a block
InSync ==
    IF pc = "render"
    THEN /\ frame.caller = "seq"
         /\ synth.block_read =
               IF seq.block_wrote = 0 /\ frame.wrote = 0 THEN BlockSize
               ELSE seq.block_wrote + frame.wrote
    ELSE seq.block_wrote = synth.block_read

StepOfPlay == ops' = ops + 1 /\ last'.op = "play"
StepOfStop == ops' = ops + 1 /\ last'.op = "stop"
StepOfReset == ops' = ops + 1 /\ last'.op = "reset"

\* a step of a call of Synthesizer.render that is not the sequencer's
StepOfDirectRender ==
    \/ pc = "idle" /\ pc' = "render"
    \/ pc = "render" /\ frame.caller = "user"

\* play makes the cursors agree
PlaySyncs == StepOfPlay => InSync'

\* the cursors go on agreeing while a file is played, except over stop and
\* direct calls of reset and render
SyncKept ==
    (/\ InSync
     /\ seq.midi_file # 0
     /\ ~StepOfStop
     /\ ~StepOfReset
     /\ ~StepOfDirectRender) => InSync'

\* the same for every step but stop and the direct calls of render
SyncKeptUnlessRender ==
    (/\ InSync
     /\ seq.midi_file # 0
     /\ ~StepOfStop
     /\ ~StepOfDirectRender) => InSync'

\* with the cursors agreeing the synthesizer, called by the sequencer, renders
\* a block exactly when the sequencer has processed events in the iteration,
\* and one block only
BlockWhenProcessed ==
    (/\ InSync
     /\ pc = "render"
     /\ pc' = "render")
       => /\ synth'.blocks # synth.blocks <=> seq.block_wrote = 0 /\ frame.wrote = 0
          /\ synth'.blocks <= 1
          /\ frame'.wrote = frame.count

\* C29: play makes the sequencer's _block_wrote equal to the synthesizer's
\* _block_read, and until stop they are equal at the start of every iteration
\* of the sequencer's render loop, whatever the counts of the render calls,
\* as long as neither render nor reset of the synthesizer is called directly;
\* the synthesizer then renders a block exactly when the sequencer has just
\* processed events, once per block
C29_CursorsAgree == [][PlaySyncs /\ SyncKept /\ BlockWhenProcessed]_vars

\* the first iteration of a call of the sequencer's render for more than a
\* block starts in the middle of a block, with the cursors equal
C29_Witness ==
    /\ pc = "seq_render"
    /\ seq.midi_file # 0
    /\ seq.wrote = 0
    /\ seq.count = BufferLength
    /\ seq.frames > BlockSize
    /\ seq.block_wrote = 1
    /\ synth.block_read = 1

\* C29 as stated: the cursors are equal until stop as long as render is not
\* called directly
C29_CursorsAgreeUnlessRender ==
    [][PlaySyncs /\ SyncKeptUnlessRender /\ BlockWhenProcessed]_vars

----------------------------------------------------------------------------
(* SpecBank: bank select with the data bytes 0, 1 and 127, program change, *)
(* reset, reset all controllers and note-on, for four fonts.               *)

\* a font with a drum kit only
FontKit ==
    [presets |-> <<PresetOf(128, 0, <<PresetRegionOf(0, 127, InstrumentDrums)>>)>>]

InitBank == \E sound_font \in Fonts \cup {FontKit} : Start(sound_font)

NextBank ==
    \/ \E channel \in Channels, data2 \in {0, 1, 127} :
          ProcessMidiMessage(channel, 176, 0, data2)
    \/ \E channel \in Channels, patch \in {0, 5} :
          ProcessMidiMessage(channel, 192, patch, 0)
    \/ \E channel \in Channels : ProcessMidiMessage(channel, 176, 121, 0)
    \/ Reset
    \/ \E channel \in Channels : NoteOn(channel, 42, 100)

SpecBank == InitBank /\ [][NextBank]_vars

\* the bank of the percussion channel is in 128 .. 255, the bank of every
\* other channel in 0 .. 127
BankRanges ==
    \A channel \in DOMAIN synth.channels :
       IF channel = PERCUSSION_CHANNEL
       THEN synth.channels[channel].bank_number \in 128 .. 255
       ELSE synth.channels[channel].bank_number \in 0 .. 127

\* a note-on has selected a preset for its channel
NoteOnDone == last.op = "note_on" /\ last.velocity > 0
NotePreset == font.presets[synth.note_preset]
NoteChannel == synth.channels[last.channel]

\* the preset was found under the id of the channel, the first step
FoundById ==
    PresetLookup(font, PresetId(NoteChannel.bank_number,
                                NoteChannel.patch_number)) # 0

\* the preset was found under the id of the channel or under the id of the
\* fallback to the GM sound set, the first two steps
FoundByIdOrFallback ==
    \/ FoundById
    \/ PresetLookup(font, IF NoteChannel.bank_number < 128
                          THEN NoteChannel.patch_number
                          ELSE Shl(128, 16)) # 0

\* a note-on on the percussion channel that finds its preset in the first
\* two steps does not get a preset of a bank below 128
PercussionNotBankZero ==
    (NoteOnDone /\ last.channel = PERCUSSION_CHANNEL /\ FoundByIdOrFallback)
       => NotePreset.bank_number >= 128

IsStandardKit(preset) == preset.bank_number = 128 /\ preset.patch_number = 0

\* a note-on on another channel that finds its preset in the first two steps
\* does not get the preset 128:0
OtherNotKitInTwoSteps ==
    (NoteOnDone /\ last.channel # PERCUSSION_CHANNEL /\ FoundByIdOrFallback)
       => ~IsStandardKit(NotePreset)

====
